---- MODULE Spec2Model ----
(***************************************************************************)
(* State-machine model of the box-trade arcade:                             *)
(*   - the live order grid (src/src/web/pages/L2.tsx) with the order event  *)
(*     bus and its trading handlers,                                        *)
(*   - the shared perp PnL stream (src/unnamed/part_001),                   *)
(*   - the venue session initialisation and the trading service             *)
(*     (src/src/drift/ArcadePerpService.ts).                                *)
(* Each part has its own specification over its own variables; the other    *)
(* variables stay at their initial values.                                  *)
(*                                                                          *)
(* Units.  Times are milliseconds.  Prices of the grid are counted in       *)
(* quarters of a price unit, so that cfg.stepP = 0.5 is 2 and every half    *)
(* step the model meets is a whole number.  stepPPercent is counted in      *)
(* thousandths (0.001 is 1).                                                *)
(***************************************************************************)
EXTENDS Integers, Sequences, FiniteSets, TLC

VARIABLES
    \* ---- live order grid (L2.tsx) ----
    now,              \* Date.now()
    tickDue,          \* the setInterval period has elapsed since its last callback
    price,            \* let price
    hasFirstPrice,    \* let hasFirstPrice
    firstPrice,       \* let firstPrice
    priceStep,        \* let priceStep
    stepPPercent,     \* cfg.stepPPercent
    orders,           \* const orders = new Map<string, OrderBox>()
    occupied,         \* const occupied = new Set<string>()
    nextId,           \* how many ids cryptoId() has handed out, plus one
    lastHover,        \* lastHoverKey / lastHoverI / lastHoverJ
    timers,           \* pending setTimeout(..., 380) removals
    rendered,         \* ids that have a [data-order] rect in the DOM
    renderThrottled,  \* now - lastRenderTime < MIN_RENDER_INTERVAL
    renderScheduled,  \* let renderScheduled
    clickRaf,         \* a requestAnimationFrame(render) queued by a click
    emitted,          \* history: per box id, the emitOrderEvent calls made for it
    busQueue,         \* events published and not yet delivered (microtasks)
    calls             \* history: per box id, the trading calls its handlers issued

gridVars == <<now, tickDue, price, hasFirstPrice, firstPrice, priceStep,
              stepPPercent, orders, occupied, nextId, lastHover, timers, rendered,
              renderThrottled, renderScheduled, clickRaf, emitted, busQueue,
              calls>>

VARIABLES
    \* ---- shared perp PnL stream (part_001) ----
    refCount,         \* let refCount
    started,          \* let started
    markPriceSub,     \* let markPriceSub: 0 is null, else the subscription's number
    oraclePriceSub,   \* let oraclePriceSub
    userSub,          \* let userSub
    currentState,     \* let currentState, also the value pnlSubject holds
    liveSubs,         \* subscriptions made on the authority client and not unsubscribed
    nextGen,          \* number of the next set of subscriptions
    acq,              \* per acquirePerpPnlStream() call: where it is, its released
                      \* flag, and how often its release callback was invoked
    serviceReady      \* service.initialize() has succeeded once

pnlVars == <<refCount, started, markPriceSub, oraclePriceSub, userSub,
             currentState, liveSubs, nextGen, acq, serviceReady>>

VARIABLES
    \* ---- venue session (ArcadePerpService.initialize) ----
    envOk,                 \* process.env.ANCHOR_WALLET and process.env.ENDPOINT are set
    wallet,                \* this.wallet is set
    connection,            \* this.connection is set
    authorityDrift,        \* this.authorityDrift is set
    centralServerDrift,    \* this.centralServerDrift is set
    userAccountPublicKey,  \* this.userAccountPublicKey is set
    initializePromise,     \* this.initializePromise: 0 is null, else the attempt's number
    attempts,              \* per attempt (the async body), the await it is at, or its outcome
    callers                \* per initialize() call: where it is, and what it met on arrival

initVars == <<envOk, wallet, connection, authorityDrift, centralServerDrift,
              userAccountPublicKey, initializePromise, attempts, callers>>

VARIABLES
    \* ---- one evaluation of the fill-wait match (waitForPositionFill) ----
    targetAmount,     \* targetAmount (raw)
    wantDirection,    \* direction
    polledAmount,     \* position.baseAssetAmountRaw of the polled position
    polledDirection,  \* position.directionEnum of the polled position
    accepted          \* "unset", or "accepted" / "rejected": the predicate of positions.find

fillVars == <<targetAmount, wantDirection, polledAmount, polledDirection, accepted>>

VARIABLES
    \* ---- trading service (ArcadePerpService) and the venue ----
    orderMeta,        \* this.orderMeta
    svc,              \* per placeLimitOrder / handleTrigger / handleExpiry call: its frame
    vPositions,       \* the venue: per market the signed raw size of the open position
    vResting,         \* the venue: limit orders resting in the book
    vCloses,          \* history: the reduce-only market orders the venue received
    cacheWarm,        \* authorityDrift.userAccountCache holds the user account
    faults,           \* how many venue calls have failed so far
    impl              \* the class behind the PerpTradingService interface

tradeVars == <<orderMeta, svc, vPositions, vResting, vCloses, cacheWarm, faults,
               impl>>

VARIABLES
    \* ---- one resolution of an order's direction (placeLimitOrder) ----
    reqDirection,     \* request.direction: <<>> when omitted, else <<direction>>
    reqTargetPrice,   \* request.targetPrice
    oracleRead,       \* what getOracleDataForPerpMarket(marketIndex) does when called
    usedDirection     \* "unset", or the direction placeLimitOrder goes on with

dirVars == <<reqDirection, reqTargetPrice, oracleRead, usedDirection>>

VARIABLES
    \* ---- the order event bus (orderBus.ts) and the microtask queue ----
    listeners,        \* per event type, the handlers added to the bus, in order
    microtasks,       \* the Promise.resolve().then(...) callbacks not yet run
    running,          \* "task" while a task's synchronous code runs, else "none"
    inEmit,           \* the event whose emitOrderEvent call is on the stack, or 0
    published,        \* history: the type of each event published, in order
    returned,         \* history: the events whose emitOrderEvent call has returned
    owed,             \* history: <<event, handler>> for each listener a dispatch reached
    received          \* history: per handler, the invocations it has had

busVars == <<listeners, microtasks, running, inEmit, published, returned, owed,
             received>>

VARIABLES
    \* ---- the handlers of attachOrderHandlers (handlers.ts) ----
    settled           \* the trading calls of the grid's handlers that have returned
                      \* or thrown: <<box id, index in calls[id], outcome>>

callVars == <<settled>>

vars == <<gridVars, pnlVars, initVars, fillVars, tradeVars, dirVars, busVars,
          callVars>>
notGrid == <<pnlVars, initVars, fillVars, tradeVars, dirVars, busVars, callVars>>
notPnl == <<gridVars, initVars, fillVars, tradeVars, dirVars, busVars, callVars>>
notInit == <<gridVars, pnlVars, fillVars, tradeVars, dirVars, busVars, callVars>>
notFill == <<gridVars, pnlVars, initVars, tradeVars, dirVars, busVars, callVars>>
notTrade == <<gridVars, pnlVars, initVars, fillVars, dirVars, busVars, callVars>>
notDir == <<gridVars, pnlVars, initVars, fillVars, tradeVars, busVars, callVars>>
notBus == <<gridVars, pnlVars, initVars, fillVars, tradeVars, dirVars, callVars>>
notCalls == <<pnlVars, initVars, fillVars, tradeVars, dirVars, busVars>>

-----------------------------------------------------------------------------
(* Program constants of the grid *)

stepMs == 5000
stepP == 2
tickMs == 16
stepPPercent0 == 1
price0 == 400
MIN_RENDER_INTERVAL == 16
RemoveDelayMs == 380

(* Bounds of the grid model *)

MaxBoxes == 2
MaxHalfSteps == 3
MaxFine == 1
NowInit == 2 * stepMs

HalfStep == stepMs \div 2
MaxNow == NowInit + MaxHalfSteps * HalfStep

NoHover == <<>>
NoFire == -1

FirstPrices == {2000}
Prices == {2000, 2002}
PriceInputs == {2000}
TimeInputs == {now - HalfStep, now, now + HalfStep}
Percents == {1, 2}
BoxIds == 1..MaxBoxes

-----------------------------------------------------------------------------
(* Arithmetic of the source *)

Max(a, b) == IF a >= b THEN a ELSE b
Min(a, b) == IF a <= b THEN a ELSE b
Abs(a) == IF a >= 0 THEN a ELSE -a

\* Math.round(a / b) for b > 0: the nearest integer, halves rounded up
MathRound(a, b) == (2 * a + b) \div (2 * b)

\* Math.ceil(a / b) for b > 0
MathCeil(a, b) == -((-a) \div b)

cellKey(i, j) == <<i, j>>

\* priceStep = Math.max(1e-12, Math.abs(firstPrice) * percent)
StepFromPercent(fp, percent) == Max(1, (Abs(fp) * percent) \div 1000)

\* the OrderBox literal of createAt and of the click handler
NewBox(i, j, step) ==
    [i |-> i, j |-> j,
     t0 |-> i * stepMs - stepMs \div 2, t1 |-> i * stepMs + stepMs \div 2,
     p0 |-> j * step - step \div 2, p1 |-> j * step + step \div 2,
     status |-> "pending", firedAt |-> NoFire]

-----------------------------------------------------------------------------
(* render(): throttled to one draw per MIN_RENDER_INTERVAL; a throttled call  *)
(* queues one requestAnimationFrame. drawOrders joins the rects to the map.   *)

Render(ords) ==
    /\ rendered' = IF renderThrottled THEN rendered ELSE DOMAIN ords
    /\ renderThrottled' = TRUE
    /\ renderScheduled' = IF renderThrottled THEN TRUE ELSE renderScheduled

\* the event types among evs that carry box id, in order
TypesFor(evs, id) ==
    LET sel == SelectSeq(evs, LAMBDA e : e.id = id)
    IN [k \in 1..Len(sel) |-> sel[k].type]

\* emitOrderEvent(type, {order}): the dispatch is deferred to a microtask
Emit(evs) ==
    /\ emitted' = [id \in BoxIds |-> emitted[id] \o TypesFor(evs, id)]
    /\ busQueue' = busQueue \o evs

\* the trading calls a handler has started and is still awaiting
Awaited == {c \in BoxIds \X (1..2) :
              /\ c[2] <= Len(calls[c[1]])
              /\ \A r \in {"returned", "threw"} : <<c[1], c[2], r>> \notin settled}

\* an event loop that a handler holds until its trading call has settled
TaskStart_AfterCallsSettle == busQueue = <<>> /\ Awaited = {}

\* a task (timer, input event, animation frame) starts with no microtask left
TaskStart == busQueue = <<>>

-----------------------------------------------------------------------------
(* The grid *)

GridInit ==
    /\ now = NowInit
    /\ tickDue = FALSE
    /\ price = price0
    /\ hasFirstPrice = FALSE
    /\ firstPrice = 0
    /\ priceStep = stepP
    /\ stepPPercent = stepPPercent0
    /\ orders = <<>>
    /\ occupied = {}
    /\ nextId = 1
    /\ lastHover = NoHover
    /\ timers = {}
    /\ rendered = {}
    /\ renderThrottled = FALSE
    /\ renderScheduled = FALSE
    /\ clickRaf = FALSE
    /\ emitted = [id \in BoxIds |-> <<>>]
    /\ busQueue = <<>>
    /\ calls = [id \in BoxIds |-> <<>>]

\* the ids of a set of boxes in the order the Map iterates them (insertion order)
RECURSIVE Asc(_)
Asc(S) ==
    IF S = {} THEN <<>>
    ELSE LET m == CHOOSE x \in S : \A y \in S : x <= y
         IN <<m>> \o Asc(S \ {m})

\* a creation path that skips the occupancy check
CanCreate_NoOccupancyCheck(i, j) == TRUE

\* if (occupied.has(key)) return;
CanCreate(i, j) == cellKey(i, j) \notin occupied

\* orders.set(box.id, box); occupied.add(key); onCreated(box.id)
Create(i, j) ==
    /\ orders' = [id \in DOMAIN orders \cup {nextId} |->
                    IF id = nextId THEN NewBox(i, j, priceStep) ELSE orders[id]]
    /\ occupied' = occupied \cup {cellKey(i, j)}
    /\ nextId' = nextId + 1
    /\ Emit(<<[type |-> "order:create", id |-> nextId]>>)

\* function createAt(timeMs, pMid)
createAt(timeMs, pMid) ==
    /\ UNCHANGED notGrid
    /\ TaskStart
    /\ nextId <= MaxBoxes
    /\ LET i == Max(MathRound(timeMs, stepMs), MathCeil(now, stepMs))
           j == MathRound(pMid, priceStep)
       IN IF ~CanCreate(i, j)
          THEN UNCHANGED gridVars
          ELSE /\ Create(i, j)
               /\ Render(orders')
               /\ UNCHANGED <<now, tickDue, price, hasFirstPrice, firstPrice,
                              priceStep, stepPPercent, lastHover, timers,
                              clickRaf, calls>>

\* overlay.on("click", ...)
Click(t, p) ==
    /\ UNCHANGED notGrid
    /\ TaskStart
    /\ nextId <= MaxBoxes
    /\ hasFirstPrice
    /\ LET useHover == lastHover # NoHover
           i == IF useHover THEN lastHover[1]
                ELSE Max(MathRound(t, stepMs), MathCeil(now, stepMs))
           j == IF useHover THEN lastHover[2] ELSE MathRound(p, priceStep)
       IN IF (~useHover /\ t < now) \/ ~CanCreate(i, j)
          THEN UNCHANGED gridVars
          ELSE /\ Create(i, j)
               /\ lastHover' = NoHover
               /\ clickRaf' = TRUE
               /\ UNCHANGED <<now, tickDue, price, hasFirstPrice, firstPrice,
                              priceStep, stepPPercent, timers, rendered,
                              renderThrottled, renderScheduled, calls>>

\* overlay.on("mousemove", ...): the body of its animation-frame callback
MouseMove(t, p) ==
    /\ UNCHANGED notGrid
    /\ TaskStart
    /\ hasFirstPrice
    /\ LET i == Max(MathRound(t, stepMs), MathCeil(now, stepMs))
           j == MathRound(p, priceStep)
           key == cellKey(i, j)
       IN /\ lastHover' = IF t < now THEN NoHover
                          ELSE IF lastHover = key THEN lastHover
                          ELSE IF key \in occupied THEN NoHover
                          ELSE key
          /\ IF t >= now /\ lastHover # key /\ key \notin occupied
             THEN Render(orders)
             ELSE UNCHANGED <<rendered, renderThrottled, renderScheduled>>
    /\ UNCHANGED <<now, tickDue, price, hasFirstPrice, firstPrice, priceStep,
                   stepPPercent, orders, occupied, nextId, timers, clickRaf,
                   emitted, busQueue, calls>>

\* a lifecycle loop whose expiry branch does not look at the status
Lifecycle_ExpiryIgnoresStatus(o) ==
    IF o.status = "pending" /\ now >= o.t0 /\ now <= o.t1
       /\ price >= Min(o.p0, o.p1) /\ price <= Max(o.p0, o.p1)
    THEN "trigger"
    ELSE IF now > o.t1 /\ o.status # "expired" THEN "expire"
    ELSE IF now > o.t1 THEN "remove"
    ELSE "keep"

\* overlay.on("mouseleave", () => hideHover())
MouseLeave ==
    /\ UNCHANGED notGrid
    /\ TaskStart
    /\ lastHover' = NoHover
    /\ UNCHANGED <<now, tickDue, price, hasFirstPrice, firstPrice, priceStep,
                   stepPPercent, orders, occupied, nextId, timers, rendered,
                   renderThrottled, renderScheduled, clickRaf, emitted, busQueue,
                   calls>>

\* .on("zoom", (ev) => { transform = ev.transform; render(); })
Zoom ==
    /\ UNCHANGED notGrid
    /\ TaskStart
    /\ Render(orders)
    /\ UNCHANGED <<now, tickDue, price, hasFirstPrice, firstPrice, priceStep,
                   stepPPercent, orders, occupied, nextId, lastHover, timers,
                   clickRaf, emitted, busQueue, calls>>

\* what the lifecycle loop of the stream timer does with one box
Lifecycle(o) ==
    LET inTime == now >= o.t0 /\ now <= o.t1
        inBand == price >= Min(o.p0, o.p1) /\ price <= Max(o.p0, o.p1)
    IN IF o.status = "pending"
       THEN IF inTime /\ inBand THEN "trigger"
            ELSE IF now > o.t1 THEN "expire"
            ELSE "keep"
       ELSE IF now > o.t1 THEN "remove" ELSE "keep"

\* onTriggered(id) / onExpired(id): nothing is emitted without the box's rect
HasRect(id) == id \in rendered

RECURSIVE TickEvents(_)
TickEvents(ids) ==
    IF ids = <<>> THEN <<>>
    ELSE LET id == Head(ids)
             a == Lifecycle(orders[id])
             ev == IF a = "trigger" /\ HasRect(id)
                     THEN <<[type |-> "order:trigger", id |-> id]>>
                   ELSE IF a = "expire" /\ HasRect(id)
                     THEN <<[type |-> "order:expire", id |-> id]>>
                   ELSE <<>>
         IN ev \o TickEvents(Tail(ids))

\* const timer = setInterval(() => {...}, cfg.tickMs)
Tick ==
    /\ UNCHANGED notGrid
    /\ TaskStart
    /\ tickDue
    /\ tickDue' = FALSE
    /\ IF ~hasFirstPrice
       THEN UNCHANGED <<orders, occupied, timers, rendered, renderThrottled,
                        renderScheduled, emitted, busQueue>>
       ELSE LET ids == DOMAIN orders
                kept == {id \in ids : Lifecycle(orders[id]) # "remove"}
                ords2 == [id \in kept |->
                            IF Lifecycle(orders[id]) = "trigger"
                              THEN [orders[id] EXCEPT !.status = "triggered",
                                                      !.firedAt = now]
                            ELSE IF Lifecycle(orders[id]) = "expire"
                              THEN [orders[id] EXCEPT !.status = "expired"]
                            ELSE orders[id]]
            IN /\ orders' = ords2
               /\ occupied' = occupied \ {cellKey(orders[id].i, orders[id].j) :
                                            id \in ids \ kept}
               /\ timers' = timers \cup
                    {[id |-> id, i |-> orders[id].i, j |-> orders[id].j,
                      due |-> now + RemoveDelayMs] :
                        id \in {x \in ids : Lifecycle(orders[x]) = "expire"}}
               /\ Emit(TickEvents(Asc(ids)))
               /\ Render(ords2)
    /\ UNCHANGED <<now, price, hasFirstPrice, firstPrice, priceStep,
                   stepPPercent, nextId, lastHover, clickRaf, calls>>

\* setTimeout(() => { orders.delete(o.id); occupied.delete(cellKey(o.i, o.j)); render(); }, 380)
RemoveTimer(tm) ==
    /\ UNCHANGED notGrid
    /\ TaskStart
    /\ now >= tm.due
    /\ timers' = timers \ {tm}
    /\ orders' = [id \in DOMAIN orders \ {tm.id} |-> orders[id]]
    /\ occupied' = occupied \ {cellKey(tm.i, tm.j)}
    /\ Render(orders')
    /\ UNCHANGED <<now, tickDue, price, hasFirstPrice, firstPrice, priceStep,
                   stepPPercent, nextId, lastHover, clickRaf, emitted, busQueue,
                   calls>>

\* requestAnimationFrame(() => { renderScheduled = false; render(); })
RafRender ==
    /\ UNCHANGED notGrid
    /\ TaskStart
    /\ renderScheduled
    /\ rendered' = IF renderThrottled THEN rendered ELSE DOMAIN orders
    /\ renderThrottled' = TRUE
    /\ renderScheduled' = renderThrottled
    /\ UNCHANGED <<now, tickDue, price, hasFirstPrice, firstPrice, priceStep,
                   stepPPercent, orders, occupied, nextId, lastHover, timers,
                   clickRaf, emitted, busQueue, calls>>

\* requestAnimationFrame(() => { render(); }) of the click handler
ClickRafRender ==
    /\ UNCHANGED notGrid
    /\ TaskStart
    /\ clickRaf
    /\ clickRaf' = FALSE
    /\ Render(orders)
    /\ UNCHANGED <<now, tickDue, price, hasFirstPrice, firstPrice, priceStep,
                   stepPPercent, orders, occupied, nextId, lastHover, timers,
                   emitted, busQueue, calls>>

\* onPrice: ({ actualPrice }) => {...}
OnPrice(p) ==
    /\ UNCHANGED notGrid
    /\ TaskStart
    /\ price' = p
    /\ IF ~hasFirstPrice
       THEN /\ hasFirstPrice' = TRUE
            /\ firstPrice' = p
            /\ priceStep' = StepFromPercent(p, stepPPercent)
            /\ Render(orders)
       ELSE UNCHANGED <<hasFirstPrice, firstPrice, priceStep, rendered,
                        renderThrottled, renderScheduled>>
    /\ UNCHANGED <<now, tickDue, stepPPercent, orders, occupied, nextId,
                   lastHover, timers, clickRaf, emitted, busQueue, calls>>

\* a granularity change that leaves the boxes' price bounds as they were
setStepGranularity_KeepsBounds(percent) ==
    /\ UNCHANGED notGrid
    /\ TaskStart
    /\ stepPPercent' = percent
    /\ IF ~hasFirstPrice
       THEN UNCHANGED <<priceStep, rendered, renderThrottled, renderScheduled>>
       ELSE /\ priceStep' = StepFromPercent(firstPrice, percent)
            /\ Render(orders)
    /\ UNCHANGED <<now, tickDue, price, hasFirstPrice, firstPrice, orders, occupied,
                   nextId, lastHover, timers, clickRaf, emitted, busQueue, calls>>

\* function setStepGranularity(percent)
setStepGranularity(percent) ==
    /\ UNCHANGED notGrid
    /\ TaskStart
    /\ stepPPercent' = percent
    /\ IF ~hasFirstPrice
       THEN UNCHANGED <<priceStep, orders, rendered, renderThrottled, renderScheduled>>
       ELSE LET step == StepFromPercent(firstPrice, percent)
            IN /\ priceStep' = step
               /\ orders' = [id \in DOMAIN orders |->
                               [orders[id] EXCEPT
                                  !.p0 = orders[id].j * step - step \div 2,
                                  !.p1 = orders[id].j * step + step \div 2]]
               /\ Render(orders')
    /\ UNCHANGED <<now, tickDue, price, hasFirstPrice, firstPrice, occupied,
                   nextId, lastHover, timers, clickRaf, emitted, busQueue, calls>>

\* the clock: a timer period or half a grid step goes by
Advance(d) ==
    /\ UNCHANGED notGrid
    /\ TaskStart
    /\ now + d <= MaxNow
    /\ d = tickMs => ((now - NowInit) % HalfStep) \div tickMs < MaxFine
    /\ now' = now + d
    /\ tickDue' = (tickDue \/ d >= tickMs)
    /\ renderThrottled' = (renderThrottled /\ d < MIN_RENDER_INTERVAL)
    /\ UNCHANGED <<price, hasFirstPrice, firstPrice, priceStep,
                   stepPPercent, orders, occupied, nextId, lastHover, timers,
                   rendered, renderScheduled, clickRaf,
                   emitted, busQueue, calls>>

\* the trading call each handler of attachOrderHandlers makes for its event
HandlerCall(ev) ==
    [op |-> IF ev.type = "order:create" THEN "placeLimitOrder"
            ELSE IF ev.type = "order:trigger" THEN "handleTrigger"
            ELSE "handleExpiry",
     id |-> ev.id]

\* the microtask of emitOrderEvent, then the listener's: the handler runs
Deliver ==
    /\ UNCHANGED notGrid
    /\ busQueue # <<>>
    /\ busQueue' = Tail(busQueue)
    /\ calls' = [calls EXCEPT ![Head(busQueue).id] =
                     Append(@, HandlerCall(Head(busQueue)).op)]
    /\ UNCHANGED <<now, tickDue, price, hasFirstPrice, firstPrice, priceStep,
                   stepPPercent, orders, occupied, nextId, lastHover, timers,
                   rendered, renderThrottled, renderScheduled, clickRaf, emitted>>

\* no trading call of a handler has settled
CallsInit == settled = {}

\* a handler whose failed call puts the box back to pending
CallSettles_FailureRevertsBox(id, k, outcome) ==
    /\ TaskStart
    /\ <<id, k>> \in Awaited
    /\ settled' = settled \cup {<<id, k, outcome>>}
    /\ orders' = [b \in DOMAIN orders |->
                    IF b = id /\ outcome = "threw"
                    THEN [orders[b] EXCEPT !.status = "pending"]
                    ELSE orders[b]]
    /\ UNCHANGED <<now, tickDue, price, hasFirstPrice, firstPrice, priceStep,
                   stepPPercent, occupied, nextId, lastHover, timers, rendered,
                   renderThrottled, renderScheduled, clickRaf, emitted, busQueue,
                   calls>>
    /\ UNCHANGED notCalls

\* try { await placeTriggerOrder(order); } catch (e) { console.warn(...) }
\* (and the same for create and expire): the awaited call returns or throws,
\* and the handler logs and ends
CallSettles(id, k, outcome) ==
    /\ TaskStart
    /\ <<id, k>> \in Awaited
    /\ settled' = settled \cup {<<id, k, outcome>>}
    /\ UNCHANGED gridVars
    /\ UNCHANGED notCalls

\* the grid driven through createAt, with the handlers' calls settling
GridCallsNext ==
    \/ \E t \in TimeInputs, p \in PriceInputs : createAt(t, p)
    \/ Tick
    \/ \E tm \in timers : RemoveTimer(tm)
    \/ RafRender
    \/ \E p \in (IF hasFirstPrice THEN Prices ELSE FirstPrices) : OnPrice(p)
    \/ \E d \in {tickMs, HalfStep} : Advance(d)
    \/ Deliver
    \/ \E id \in BoxIds, k \in 1..2, outcome \in {"returned", "threw"} :
          CallSettles(id, k, outcome)

GridNext ==
    \/ \E t \in TimeInputs, p \in PriceInputs : createAt(t, p)
    \/ \E t \in TimeInputs, p \in PriceInputs : Click(t, p)
    \/ \E t \in TimeInputs, p \in PriceInputs : MouseMove(t, p)
    \/ MouseLeave
    \/ Zoom
    \/ Tick
    \/ \E tm \in timers : RemoveTimer(tm)
    \/ RafRender
    \/ ClickRafRender
    \/ \E p \in (IF hasFirstPrice THEN Prices ELSE FirstPrices) : OnPrice(p)
    \/ \E pc \in Percents : setStepGranularity(pc)
    \/ \E d \in {tickMs, HalfStep} : Advance(d)
    \/ Deliver

-----------------------------------------------------------------------------
(* The shared perp PnL stream (part_001) *)

MaxAcquirers == 3
MaxReleaseCalls == 2

Acquirers == 1..MaxAcquirers
SubKinds == {"markPrice", "oraclePrice", "userAccount"}
NoData == 0
MarkInputs == {NoData, 7}
OracleInputs == {NoData, 7}
NoPosition == [present |-> FALSE, pnlUsd |-> 0, pnlPct |-> 0]
AccountInputs == {NoPosition, [present |-> TRUE, pnlUsd |-> 3, pnlPct |-> 1]}

defaultState ==
    [markPrice |-> 0, oraclePrice |-> 0, pnlUsd |-> 0, pnlPct |-> 0,
     hasPosition |-> FALSE]

PnlInit ==
    /\ refCount = 0
    /\ started = FALSE
    /\ markPriceSub = 0
    /\ oraclePriceSub = 0
    /\ userSub = 0
    /\ currentState = defaultState
    /\ liveSubs = {}
    /\ nextGen = 1
    /\ acq = [a \in Acquirers |->
               [pc |-> "idle", released |-> FALSE, invoked |-> 0]]
    /\ serviceReady = FALSE

\* the subscriptions the three module variables hold
HeldSubs ==
    {s \in [kind : SubKinds, gen : 1..MaxAcquirers] :
        \/ s.kind = "markPrice" /\ s.gen = markPriceSub
        \/ s.kind = "oraclePrice" /\ s.gen = oraclePriceSub
        \/ s.kind = "userAccount" /\ s.gen = userSub}

\* acquirePerpPnlStream(): refCount++, then startInternal() up to its first await
Acquire(a) ==
    /\ acq[a].pc = "idle"
    /\ refCount' = refCount + 1
    /\ IF started
       THEN acq' = [acq EXCEPT ![a].pc = "held"]
       ELSE acq' = [acq EXCEPT ![a].pc = "awaitInit"]
    /\ UNCHANGED <<started, markPriceSub, oraclePriceSub, userSub, currentState,
                   liveSubs, nextGen, serviceReady>>
    /\ UNCHANGED notPnl

\* startInternal() after await service.initialize(): the three subscriptions
\* are made and assigned, started = true, and acquire returns its release
InitResolved(a) ==
    /\ acq[a].pc = "awaitInit"
    /\ serviceReady' = TRUE
    /\ markPriceSub' = nextGen
    /\ oraclePriceSub' = nextGen
    /\ userSub' = nextGen
    /\ liveSubs' = liveSubs \cup [kind : SubKinds, gen : {nextGen}]
    /\ nextGen' = nextGen + 1
    /\ started' = TRUE
    /\ acq' = [acq EXCEPT ![a].pc = "held"]
    /\ UNCHANGED <<refCount, currentState>>
    /\ UNCHANGED notPnl

\* await service.initialize() throws: acquirePerpPnlStream() rejects
InitRejected(a) ==
    /\ acq[a].pc = "awaitInit"
    /\ ~serviceReady
    /\ acq' = [acq EXCEPT ![a].pc = "failed"]
    /\ UNCHANGED <<refCount, started, markPriceSub, oraclePriceSub, userSub,
                   currentState, liveSubs, nextGen, serviceReady>>
    /\ UNCHANGED notPnl

\* function stopInternal(), as the new values of the variables it writes
stopInternal ==
    IF ~started
    THEN UNCHANGED <<started, markPriceSub, oraclePriceSub, userSub,
                     currentState, liveSubs>>
    ELSE /\ liveSubs' = liveSubs \ HeldSubs
         /\ markPriceSub' = 0
         /\ oraclePriceSub' = 0
         /\ userSub' = 0
         /\ started' = FALSE
         /\ currentState' = defaultState

\* the release callback without its released flag
Release_NoReleasedFlag(a) ==
    /\ acq[a].pc = "held"
    /\ acq[a].invoked < MaxReleaseCalls
    /\ acq' = [acq EXCEPT ![a].released = TRUE, ![a].invoked = @ + 1]
    /\ refCount' = Max(0, refCount - 1)
    /\ IF refCount' = 0
       THEN stopInternal
       ELSE UNCHANGED <<started, markPriceSub, oraclePriceSub, userSub,
                        currentState, liveSubs>>
    /\ UNCHANGED <<nextGen, serviceReady>>
    /\ UNCHANGED notPnl

\* the release callback acquirePerpPnlStream() returned
Release(a) ==
    /\ acq[a].pc = "held"
    /\ acq[a].invoked < MaxReleaseCalls
    /\ IF acq[a].released
       THEN /\ acq' = [acq EXCEPT ![a].invoked = @ + 1]
            /\ UNCHANGED <<refCount, started, markPriceSub, oraclePriceSub,
                           userSub, currentState, liveSubs>>
       ELSE /\ acq' = [acq EXCEPT ![a].released = TRUE, ![a].invoked = @ + 1]
            /\ refCount' = Max(0, refCount - 1)
            /\ IF refCount' = 0
               THEN stopInternal
               ELSE UNCHANGED <<started, markPriceSub, oraclePriceSub, userSub,
                                currentState, liveSubs>>
    /\ UNCHANGED <<nextGen, serviceReady>>
    /\ UNCHANGED notPnl

\* the callback given to authority.onMarkPricesUpdate
OnMarkPrice(s, v) ==
    /\ s \in liveSubs /\ s.kind = "markPrice"
    /\ currentState' = IF v = NoData THEN currentState
                       ELSE [currentState EXCEPT !.markPrice = v]
    /\ UNCHANGED <<refCount, started, markPriceSub, oraclePriceSub, userSub,
                   liveSubs, nextGen, acq, serviceReady>>
    /\ UNCHANGED notPnl

\* the callback given to authority.onOraclePricesUpdate
OnOraclePrice(s, v) ==
    /\ s \in liveSubs /\ s.kind = "oraclePrice"
    /\ currentState' = IF v = NoData THEN currentState
                       ELSE [currentState EXCEPT !.oraclePrice = v]
    /\ UNCHANGED <<refCount, started, markPriceSub, oraclePriceSub, userSub,
                   liveSubs, nextGen, acq, serviceReady>>
    /\ UNCHANGED notPnl

\* the callback given to authority.onUserAccountUpdate
OnUserAccount(s, pos) ==
    /\ s \in liveSubs /\ s.kind = "userAccount"
    /\ currentState' =
         IF ~pos.present
         THEN IF currentState.hasPosition
              THEN [currentState EXCEPT !.hasPosition = FALSE, !.pnlUsd = 0,
                                        !.pnlPct = 0]
              ELSE currentState
         ELSE [currentState EXCEPT !.pnlUsd = pos.pnlUsd, !.pnlPct = pos.pnlPct,
                                   !.hasPosition = TRUE]
    /\ UNCHANGED <<refCount, started, markPriceSub, oraclePriceSub, userSub,
                   liveSubs, nextGen, acq, serviceReady>>
    /\ UNCHANGED notPnl

PnlNext ==
    \/ \E a \in Acquirers : Acquire(a)
    \/ \E a \in Acquirers : InitResolved(a)
    \/ \E a \in Acquirers : InitRejected(a)
    \/ \E a \in Acquirers : Release(a)
    \/ \E s \in liveSubs, v \in MarkInputs : OnMarkPrice(s, v)
    \/ \E s \in liveSubs, v \in OracleInputs : OnOraclePrice(s, v)
    \/ \E s \in liveSubs, pos \in AccountInputs : OnUserAccount(s, pos)

-----------------------------------------------------------------------------
(* The venue session: ArcadePerpService.initialize() *)

MaxCallers == 3

Callers == 1..MaxCallers
InFlightStages == {"authoritySubscribe", "userAccount", "centralSubscribe"}

InitFields ==
    /\ wallet = FALSE
    /\ connection = FALSE
    /\ authorityDrift = FALSE
    /\ centralServerDrift = FALSE
    /\ userAccountPublicKey = FALSE
    /\ initializePromise = 0
    /\ attempts = <<>>
    /\ callers = [c \in Callers |-> [pc |-> "idle", awaits |-> 0, during |-> 0]]

InitInit == envOk \in BOOLEAN /\ InitFields
InitIdle == envOk = TRUE /\ InitFields

\* the attempts whose async body has not ended
InFlight == {a \in 1..Len(attempts) : attempts[a] \in InFlightStages}

\* the attempt in flight, 0 when there is none
InFlightOrNone == IF InFlight = {} THEN 0 ELSE CHOOSE a \in InFlight : TRUE

\* if (this.authorityDrift && this.centralServerDrift && this.userAccountPublicKey
\*     && this.wallet && this.connection) return;
AllFieldsSet ==
    /\ authorityDrift /\ centralServerDrift /\ userAccountPublicKey
    /\ wallet /\ connection

\* public async initialize(), up to its await
initialize(c) ==
    /\ callers[c].pc = "idle"
    /\ IF AllFieldsSet
       THEN /\ callers' = [callers EXCEPT ![c] =
                  [pc |-> "returned", awaits |-> 0, during |-> InFlightOrNone]]
            /\ UNCHANGED <<wallet, connection, authorityDrift, initializePromise,
                           attempts>>
       ELSE IF initializePromise # 0
       THEN /\ callers' = [callers EXCEPT ![c] =
                  [pc |-> "awaiting", awaits |-> initializePromise,
                   during |-> InFlightOrNone]]
            /\ UNCHANGED <<wallet, connection, authorityDrift, initializePromise,
                           attempts>>
       ELSE IF ~envOk
       THEN \* the async body throws before its first await; the caller's await
            \* rejects and its finally leaves the marker null
            /\ attempts' = Append(attempts, "rejected")
            /\ callers' = [callers EXCEPT ![c] =
                  [pc |-> "threw", awaits |-> Len(attempts) + 1, during |-> 0]]
            /\ UNCHANGED <<wallet, connection, authorityDrift, initializePromise>>
       ELSE /\ wallet' = TRUE
            /\ connection' = TRUE
            /\ authorityDrift' = TRUE
            /\ attempts' = Append(attempts, "authoritySubscribe")
            /\ initializePromise' = Len(attempts) + 1
            /\ callers' = [callers EXCEPT ![c] =
                  [pc |-> "awaiting", awaits |-> Len(attempts) + 1,
                   during |-> InFlightOrNone]]
    /\ UNCHANGED <<envOk, centralServerDrift, userAccountPublicKey>>
    /\ UNCHANGED notInit

\* the attempt ends: the first caller's finally clears the marker, and every
\* caller awaiting the attempt's promise gets its outcome
Settle(a, outcome) ==
    /\ attempts' = [attempts EXCEPT ![a] = outcome]
    /\ initializePromise' = 0
    /\ callers' = [c \in Callers |->
                     IF callers[c].pc = "awaiting" /\ callers[c].awaits = a
                     THEN [callers[c] EXCEPT
                             !.pc = IF outcome = "fulfilled" THEN "returned"
                                    ELSE "threw"]
                     ELSE callers[c]]

\* await this.authorityDrift.subscribe() ends
AuthoritySubscribed(a, ok) ==
    /\ a \in InFlight /\ attempts[a] = "authoritySubscribe"
    /\ IF ok
       THEN /\ attempts' = [attempts EXCEPT ![a] = "userAccount"]
            /\ UNCHANGED <<initializePromise, callers>>
       ELSE Settle(a, "rejected")
    /\ UNCHANGED <<envOk, wallet, connection, authorityDrift, centralServerDrift,
                   userAccountPublicKey>>
    /\ UNCHANGED notInit

\* addUser and getUserAccountPublicKey end; this.userAccountPublicKey and
\* this.centralServerDrift are assigned, then central.subscribe() is awaited
UserAccountLoaded(a, ok) ==
    /\ a \in InFlight /\ attempts[a] = "userAccount"
    /\ IF ok
       THEN /\ attempts' = [attempts EXCEPT ![a] = "centralSubscribe"]
            /\ userAccountPublicKey' = TRUE
            /\ centralServerDrift' = TRUE
            /\ UNCHANGED <<initializePromise, callers>>
       ELSE /\ Settle(a, "rejected")
            /\ UNCHANGED <<userAccountPublicKey, centralServerDrift>>
    /\ UNCHANGED <<envOk, wallet, connection, authorityDrift>>
    /\ UNCHANGED notInit

\* await this.centralServerDrift.subscribe() ends
CentralSubscribed(a, ok) ==
    /\ a \in InFlight /\ attempts[a] = "centralSubscribe"
    /\ Settle(a, IF ok THEN "fulfilled" ELSE "rejected")
    /\ UNCHANGED <<envOk, wallet, connection, authorityDrift, centralServerDrift,
                   userAccountPublicKey>>
    /\ UNCHANGED notInit

InitNext ==
    \/ \E c \in Callers : initialize(c)
    \/ \E a \in InFlight, ok \in BOOLEAN : AuthoritySubscribed(a, ok)
    \/ \E a \in InFlight, ok \in BOOLEAN : UserAccountLoaded(a, ok)
    \/ \E a \in InFlight, ok \in BOOLEAN : CentralSubscribed(a, ok)

-----------------------------------------------------------------------------
(* The fill-wait match of waitForPositionFill *)

FILL_TOLERANCE_PERCENT == 95

MaxRaw == 20

Directions == {"LONG", "SHORT"}

\* a fill-wait that forgets the tolerance
minimumSatisfiedAmount_NoTolerance(target) == target

\* targetAmount.mul(new BN(FILL_TOLERANCE_PERCENT)).div(BN_100): BN.div truncates
minimumSatisfiedAmount(target) == (target * FILL_TOLERANCE_PERCENT) \div 100

\* the predicate of positions.find(...) in waitForPositionFill
FillMatch(position, direction, target) ==
    /\ position.directionEnum = direction
    /\ position.baseAssetAmountRaw >= minimumSatisfiedAmount(target)

FillInit ==
    /\ targetAmount \in 0..MaxRaw
    /\ wantDirection \in Directions
    /\ polledAmount \in 0..MaxRaw
    /\ polledDirection \in Directions
    /\ accepted = "unset"

FillIdle ==
    /\ targetAmount = 0
    /\ wantDirection = "LONG"
    /\ polledAmount = 0
    /\ polledDirection = "LONG"
    /\ accepted = "unset"

\* one poll of the fill-wait looks at the polled position
PollMatch ==
    /\ accepted = "unset"
    /\ accepted' = IF FillMatch([directionEnum |-> polledDirection,
                                 baseAssetAmountRaw |-> polledAmount],
                                wantDirection, targetAmount)
                    THEN "accepted" ELSE "rejected"
    /\ UNCHANGED <<targetAmount, wantDirection, polledAmount, polledDirection>>
    /\ UNCHANGED notFill

FillNext == PollMatch

-----------------------------------------------------------------------------
(* The trading service: ArcadePerpService placeLimitOrder / handleTrigger /   *)
(* handleExpiry, and the venue they talk to.  Time is kept per call as the    *)
(* milliseconds left until its timer fires (wakeIn) and until its deadline    *)
(* (left), so that Date.now() < deadline is left > 0.  A timer fires no       *)
(* earlier than asked; here every timer fires TimerLagMs late, which keeps    *)
(* the wait loops to a few polls each.                                        *)

DEFAULT_MARKET_INDEX == 0
FILL_TIMEOUT_MS == 60000
CLOSE_TIMEOUT_MS == 30000
POLL_INTERVAL_MS == 1000
CollectSleepMs == 500

MaxCalls == 3
MaxInFlight == 2
MaxFaults == 1
TimerLagMs == 14500

MARKET_INDEX == DEFAULT_MARKET_INDEX
Markets == {0, 1}
OrderIds == {1}
RequestSizes == {20}
FillChunks == {20}
TimerLags == {TimerLagMs}
OraclePrices == {100}
TargetPrices == {100}
Undefined == "none"
CallIds == 1..MaxCalls
CloseOps == {"handleTrigger", "handleExpiry"}

\* request.direction, request.marketIndex and request.waitForFill may be absent
\* (the empty tuple) or given (a tuple of the value)
PlaceRequests ==
    {r \in [orderId : OrderIds, direction : {<<>>, <<"SHORT">>},
            marketIndex : {<<>>, <<1>>},
            waitForFill : {<<>>, <<FALSE>>, <<TRUE>>},
            size : RequestSizes, targetPrice : TargetPrices] :
        \* four requests: waitForFill is left out or false with and without
        \* the other two fields, and true once
        \/ r.direction = <<>> /\ r.marketIndex = <<>> /\ r.waitForFill = <<>>
        \/ r.direction = <<>> /\ r.marketIndex # <<>> /\ r.waitForFill = <<FALSE>>
        \/ r.direction # <<>> /\ r.marketIndex = <<>> /\ r.waitForFill = <<FALSE>>
        \/ r.direction # <<>> /\ r.marketIndex # <<>> /\ r.waitForFill = <<TRUE>>}

\* x ?? d, an absent x being the empty tuple
OrElse(x, d) == IF x = <<>> THEN d ELSE x[1]

NullPosition ==
    [marketIndex |-> MARKET_INDEX, directionEnum |-> Undefined,
     baseAssetAmountRaw |-> 0]

IdleCall ==
    [op |-> "none", id |-> 0, pc |-> "idle", direction |-> Undefined,
     marketIndex |-> MARKET_INDEX, amount |-> 0, wakeIn |-> 0, left |-> 0,
     targets |-> <<>>, signature |-> 0, position |-> NullPosition,
     signatures |-> 0, remainingPositions |-> <<>>, timedOut |-> FALSE,
     hadMeta |-> FALSE, after |-> {}, waitForFill |-> <<>>,
     closed |-> <<>>]

TradeInit ==
    /\ orderMeta = <<>>
    /\ svc = [k \in CallIds |-> IdleCall]
    /\ vPositions = [m \in Markets |-> 0]
    /\ vResting = {}
    /\ vCloses = {}
    /\ cacheWarm \in BOOLEAN
    /\ faults = 0
    /\ impl = "ArcadePerpService"

\* the same with the service class the grid's handlers use (actions.ts)
DriftTradeInit ==
    /\ orderMeta = <<>>
    /\ svc = [k \in CallIds |-> IdleCall]
    /\ vPositions = [m \in Markets |-> 0]
    /\ vResting = {}
    /\ vCloses = {}
    /\ cacheWarm \in BOOLEAN
    /\ faults = 0
    /\ impl = "DriftPerpTradingService"

TradeIdle ==
    /\ orderMeta = <<>>
    /\ svc = [k \in CallIds |-> IdleCall]
    /\ vPositions = [m \in Markets |-> 0]
    /\ vResting = {}
    /\ vCloses = {}
    /\ cacheWarm = TRUE
    /\ faults = 0
    /\ impl = "ArcadePerpService"

Ended(k) == svc[k].pc \in {"returned", "threw"}
InFlightCalls == {k \in CallIds : svc[k].pc \notin {"idle", "returned", "threw"}}
EndedCalls == {k \in CallIds : Ended(k)}

\* calls take the slots in order
NextSlot(k) ==
    /\ svc[k].pc = "idle"
    /\ \A h \in CallIds : h < k => svc[h].pc # "idle"
    /\ Cardinality(InFlightCalls) < MaxInFlight

\* the venue call awaited at this step may fail
MayFail == faults < MaxFaults

\* what a call of getOracleDataForPerpMarket can do: return the oracle data,
\* return nothing, or throw
OracleData(p) == [kind |-> "data", price |-> p]
OracleNothing == [kind |-> "nothing", price |-> 0]
OracleThrows == [kind |-> "throws", price |-> 0]

\* an inference that sends a target equal to the oracle price SHORT
inferDirection_StrictlyAbove(targetPrice, read) ==
    IF read.kind = "data" /\ targetPrice > read.price THEN "LONG" ELSE "SHORT"

\* private inferDirection(targetPrice, marketIndex): the oracle read is inside
\* try { } catch (_err) { return LONG }, and no data returns LONG
inferDirection(targetPrice, read) ==
    IF read.kind = "throws" THEN "LONG"
    ELSE IF read.kind = "nothing" THEN "LONG"
    ELSE IF targetPrice >= read.price THEN "LONG" ELSE "SHORT"

\* const direction = request.direction ?? this.inferDirection(targetPrice, marketIndex)
ResolveDirection(direction, targetPrice, read) ==
    IF direction # <<>> THEN direction[1] ELSE inferDirection(targetPrice, read)

\* one PositionSummary of collectPositions(): every summary is stamped with
\* MARKET_INDEX, whatever market the position is in
Summary(m) ==
    [marketIndex |-> MARKET_INDEX,
     directionEnum |-> IF vPositions[m] > 0 THEN "LONG" ELSE "SHORT",
     baseAssetAmountRaw |-> Abs(vPositions[m])]

RECURSIVE SummariesOf(_)
SummariesOf(ms) ==
    IF ms = <<>> THEN <<>>
    ELSE (IF vPositions[Head(ms)] # 0 THEN <<Summary(Head(ms))>> ELSE <<>>)
         \o SummariesOf(Tail(ms))

\* private async collectPositions(), after its sleep(500): the summaries of
\* userData.openPerpPositions, or [] while the cache has no user data
collectPositions == IF ~cacheWarm THEN <<>> ELSE SummariesOf(Asc(Markets))

\* positions.find(...) of waitForPositionFill: the first match, or null
FindFill(positions, direction, target) ==
    LET hits == SelectSeq(positions, LAMBDA p : FillMatch(p, direction, target))
    IN IF hits = <<>> THEN NullPosition ELSE Head(hits)

\* openPositions.filter(...) of closePerpPositions
CloseTargets(positions, direction, marketIndex) ==
    SelectSeq(positions, LAMBDA p :
        /\ p.marketIndex = marketIndex
        /\ (direction # Undefined => p.directionEnum = direction))

\* a record that always names the default market
MetaSet_DefaultMarket(id, direction, marketIndex) ==
    [x \in DOMAIN orderMeta \cup {id} |->
        IF x = id THEN [direction |-> direction, marketIndex |-> MARKET_INDEX]
        ELSE orderMeta[x]]

\* this.orderMeta.set(orderId, { direction, marketIndex })
MetaSet(id, direction, marketIndex) ==
    [x \in DOMAIN orderMeta \cup {id} |->
        IF x = id THEN [direction |-> direction, marketIndex |-> marketIndex]
        ELSE orderMeta[x]]

\* this.orderMeta.delete(orderId)
MetaDelete(id) == [x \in DOMAIN orderMeta \ {id} |-> orderMeta[x]]

\* a call ends: its timers are gone
EndCall(c, how) == [c EXCEPT !.pc = how, !.wakeIn = 0, !.left = 0, !.targets = <<>>]

\* whether placeLimitOrder waits for the fill.  ArcadePerpService tests
\* request.waitForFill ?? true; DriftPerpTradingService hands
\* request.waitForFill ?? false to placePerpLimitOrder, which tests
\* params.waitForFill ?? true
WaitsForFill(waitForFill) ==
    IF impl = "ArcadePerpService" THEN OrElse(waitForFill, TRUE)
    ELSE OrElse(<<OrElse(waitForFill, FALSE)>>, TRUE)

\* placeLimitOrder(request) is called: it awaits initialize(), then the limit
\* order transaction, then its submission
CallPlace(k, req) ==
    /\ NextSlot(k)
    /\ LET marketIndex == OrElse(req.marketIndex, MARKET_INDEX)
           direction == ResolveDirection(req.direction, req.targetPrice,
                                         OracleData(CHOOSE o \in OraclePrices : TRUE))
       IN svc' = [svc EXCEPT ![k] =
              [IdleCall EXCEPT !.op = "placeLimitOrder", !.id = req.orderId,
                               !.pc = IF WaitsForFill(req.waitForFill)
                                      THEN "submitThenWait" ELSE "submit",
                               !.waitForFill = req.waitForFill,
                               !.direction = direction,
                               !.marketIndex = marketIndex,
                               !.amount = req.size,
                               !.after = EndedCalls]]
    /\ UNCHANGED <<orderMeta, vPositions, vResting, vCloses, cacheWarm, faults>>
    /\ UNCHANGED <<impl, notTrade>>

\* placeLimitOrder after await waitForPositionFill (or without it):
\* this.orderMeta.set(...); return { signature, position, direction, marketIndex }
AfterFillWait(k, position, byDeadline) ==
    /\ orderMeta' = MetaSet(svc[k].id, svc[k].direction, svc[k].marketIndex)
    /\ svc' = [svc EXCEPT ![k] =
                 EndCall([svc[k] EXCEPT !.position = position,
                                        !.signature = k,
                                        !.timedOut = byDeadline], "returned")]

\* a fill-wait that rejects when its deadline passes
FillTimedOut_Throws(k) ==
    /\ svc' = [svc EXCEPT ![k] = EndCall([svc[k] EXCEPT !.timedOut = TRUE], "threw")]
    /\ UNCHANGED orderMeta

\* waitForPositionFill leaves its loop on the deadline: return null
FillTimedOut(k) == AfterFillWait(k, NullPosition, TRUE)

\* the limit order has been built, signed and sent
Submitted(k) ==
    /\ svc[k].pc \in {"submit", "submitThenWait"}
    /\ vResting' = vResting \cup {[k |-> k, market |-> svc[k].marketIndex,
                                   dir |-> svc[k].direction, rem |-> svc[k].amount]}
    /\ IF svc[k].pc = "submitThenWait"
       THEN \* deadline = Date.now() + timeoutMs; the loop is entered and
            \* collectPositions() sleeps
            /\ svc' = [svc EXCEPT ![k].pc = "fillCollect",
                                  ![k].signature = k,
                                  ![k].left = FILL_TIMEOUT_MS,
                                  ![k].wakeIn = CollectSleepMs]
            /\ UNCHANGED orderMeta
       ELSE AfterFillWait(k, NullPosition, FALSE)
    /\ UNCHANGED <<vPositions, vCloses, cacheWarm, faults>>
    /\ UNCHANGED <<impl, notTrade>>

\* initialize(), getOpenPerpNonMarketOrderTxn or sendSignedTransaction rejects
SubmitFailed(k) ==
    /\ svc[k].pc \in {"submit", "submitThenWait"}
    /\ MayFail
    /\ faults' = faults + 1
    /\ svc' = [svc EXCEPT ![k] = EndCall(svc[k], "threw")]
    /\ UNCHANGED <<orderMeta, vPositions, vResting, vCloses, cacheWarm>>
    /\ UNCHANGED <<impl, notTrade>>

\* waitForPositionFill: collectPositions() returns and the match is looked for
FillPoll(k) ==
    /\ svc[k].pc = "fillCollect" /\ svc[k].wakeIn = 0
    /\ LET match == FindFill(collectPositions, svc[k].direction, svc[k].amount)
       IN IF match # NullPosition
          THEN AfterFillWait(k, match, FALSE)
          ELSE /\ svc' = [svc EXCEPT ![k].pc = "fillSleep",
                                     ![k].wakeIn = POLL_INTERVAL_MS]
               /\ UNCHANGED orderMeta
    /\ UNCHANGED <<vPositions, vResting, vCloses, cacheWarm, faults>>
    /\ UNCHANGED <<impl, notTrade>>

\* a poll of a wait loop rejects (collectPositions throws)
PollFailed(k) ==
    /\ svc[k].pc \in {"fillCollect", "closeCollect", "waitCollect", "finalCollect"}
    /\ svc[k].wakeIn = 0
    /\ MayFail
    /\ faults' = faults + 1
    /\ svc' = [svc EXCEPT ![k] = EndCall(svc[k], "threw")]
    /\ UNCHANGED <<orderMeta, vPositions, vResting, vCloses, cacheWarm>>
    /\ UNCHANGED <<impl, notTrade>>

\* a fill-wait whose loop does not look at the deadline
FillSleepDone_IgnoresDeadline(k) ==
    /\ svc[k].pc = "fillSleep" /\ svc[k].wakeIn = 0
    /\ svc' = [svc EXCEPT ![k].pc = "fillCollect",
                          ![k].wakeIn = CollectSleepMs]
    /\ UNCHANGED <<orderMeta, vPositions, vResting, vCloses, cacheWarm, faults>>
    /\ UNCHANGED <<impl, notTrade>>

\* waitForPositionFill: sleep(POLL_INTERVAL_MS) is over, while (Date.now() < deadline)
FillSleepDone(k) ==
    /\ svc[k].pc = "fillSleep" /\ svc[k].wakeIn = 0
    /\ IF svc[k].left > 0
       THEN /\ svc' = [svc EXCEPT ![k].pc = "fillCollect",
                                  ![k].wakeIn = CollectSleepMs]
            /\ UNCHANGED orderMeta
       ELSE FillTimedOut(k)
    /\ UNCHANGED <<vPositions, vResting, vCloses, cacheWarm, faults>>
    /\ UNCHANGED <<impl, notTrade>>

\* handleTrigger(orderId) / handleExpiry(orderId) is called: closeAndCleanup
\* awaits initialize()
CallClose(k, op, id) ==
    /\ NextSlot(k)
    /\ svc' = [svc EXCEPT ![k] =
                 [IdleCall EXCEPT !.op = op, !.id = id, !.pc = "init",
                                  !.after = EndedCalls]]
    /\ UNCHANGED <<orderMeta, vPositions, vResting, vCloses, cacheWarm, faults>>
    /\ UNCHANGED <<impl, notTrade>>

\* closeAndCleanup after await this.initialize(): the metadata is looked up and
\* closePerpPositions starts with collectPositions()
CloseStarted(k) ==
    /\ svc[k].pc = "init"
    /\ LET has == svc[k].id \in DOMAIN orderMeta
       IN svc' = [svc EXCEPT
                    ![k].pc = "closeCollect",
                    ![k].hadMeta = has,
                    ![k].direction = IF has THEN orderMeta[svc[k].id].direction
                                     ELSE Undefined,
                    ![k].marketIndex = IF has THEN orderMeta[svc[k].id].marketIndex
                                       ELSE MARKET_INDEX,
                    ![k].wakeIn = CollectSleepMs]
    /\ UNCHANGED <<orderMeta, vPositions, vResting, vCloses, cacheWarm, faults>>
    /\ UNCHANGED <<impl, notTrade>>

\* no call has got past its await this.initialize(): the session fields may
\* still be unset, so initialize() can still reject (once they are set it
\* returns at once)
SessionMayBeUnset ==
    \A c \in CallIds :
        \/ svc[c].pc \in {"idle", "init", "submit", "submitThenWait"}
        \/ svc[c].pc = "threw" /\ svc[c].op = "placeLimitOrder"
                               /\ svc[c].signature = 0

\* await this.initialize() rejects in closeAndCleanup
CloseInitFailed(k) ==
    /\ svc[k].pc = "init"
    /\ SessionMayBeUnset
    /\ MayFail
    /\ faults' = faults + 1
    /\ svc' = [svc EXCEPT ![k] = EndCall(svc[k], "threw")]
    /\ UNCHANGED <<orderMeta, vPositions, vResting, vCloses, cacheWarm>>
    /\ UNCHANGED <<impl, notTrade>>

\* closeAndCleanup after await closePerpPositions:
\* this.orderMeta.delete(orderId); return { ...result, direction, marketIndex }
AfterClose(k, remaining) ==
    /\ orderMeta' = MetaDelete(svc[k].id)
    /\ svc' = [svc EXCEPT ![k] =
                 EndCall([svc[k] EXCEPT !.remainingPositions = remaining],
                         "returned")]

\* closePerpPositions: the open positions are read and the targets chosen
ClosePoll(k) ==
    /\ svc[k].pc = "closeCollect" /\ svc[k].wakeIn = 0
    /\ LET openPositions == collectPositions
           targets == CloseTargets(openPositions, svc[k].direction,
                                   svc[k].marketIndex)
       IN IF targets = <<>>
          THEN AfterClose(k, openPositions)
          ELSE /\ svc' = [svc EXCEPT ![k].pc = "closeSend",
                                     ![k].targets = targets]
               /\ UNCHANGED orderMeta
    /\ UNCHANGED <<vPositions, vResting, vCloses, cacheWarm, faults>>
    /\ UNCHANGED <<impl, notTrade>>

\* a reduce-only market order executes: it can only shrink the position of its
\* market towards zero
Reduced(c) ==
    LET pos == vPositions[c.market]
        cut == Min(Abs(pos), c.amt)
    IN IF pos * (IF c.dir = "LONG" THEN 1 ELSE -1) < 0
       THEN [vPositions EXCEPT ![c.market] = IF pos > 0 THEN pos - cut ELSE pos + cut]
       ELSE vPositions

\* closePerpPositions: the reduce-only market order for the next target has
\* been built, signed and sent, and the venue executes it or finds no taker;
\* after the last one waitForAllPositionsClosed sets its deadline and polls
CloseSent(k, executed) ==
    /\ svc[k].pc = "closeSend"
    /\ LET position == Head(svc[k].targets)
           closeDirection == IF position.directionEnum = "LONG" THEN "SHORT"
                             ELSE "LONG"
           order == [k |-> k, market |-> position.marketIndex,
                     dir |-> closeDirection, amt |-> position.baseAssetAmountRaw]
           last == Len(svc[k].targets) = 1
       IN /\ vCloses' = vCloses \cup {order}
          /\ vPositions' = IF executed THEN Reduced(order) ELSE vPositions
          /\ svc' = [svc EXCEPT
                       ![k].targets = Tail(@),
                       ![k].signatures = @ + 1,
                       ![k].pc = IF last THEN "waitCollect" ELSE "closeSend",
                       ![k].left = IF last THEN CLOSE_TIMEOUT_MS ELSE 0,
                       ![k].wakeIn = IF last THEN CollectSleepMs ELSE 0]
    /\ UNCHANGED <<orderMeta, vResting, cacheWarm, faults>>
    /\ UNCHANGED <<impl, notTrade>>

\* getOpenPerpMarketOrderTxn or sendSignedTransaction rejects
CloseSendFailed(k) ==
    /\ svc[k].pc = "closeSend"
    /\ MayFail
    /\ faults' = faults + 1
    /\ svc' = [svc EXCEPT ![k] = EndCall(svc[k], "threw")]
    /\ UNCHANGED <<orderMeta, vPositions, vResting, vCloses, cacheWarm>>
    /\ UNCHANGED <<impl, notTrade>>

\* waitForAllPositionsClosed: one poll; on no position it returns true and
\* closePerpPositions goes on to its last collectPositions()
WaitPoll(k) ==
    /\ svc[k].pc = "waitCollect" /\ svc[k].wakeIn = 0
    /\ svc' = IF collectPositions = <<>>
              THEN [svc EXCEPT ![k].pc = "finalCollect", ![k].left = 0,
                               ![k].closed = <<TRUE>>,
                               ![k].wakeIn = CollectSleepMs]
              ELSE [svc EXCEPT ![k].pc = "waitSleep",
                               ![k].wakeIn = POLL_INTERVAL_MS]
    /\ UNCHANGED <<orderMeta, vPositions, vResting, vCloses, cacheWarm, faults>>
    /\ UNCHANGED <<impl, notTrade>>

\* waitForAllPositionsClosed: sleep(POLL_INTERVAL_MS) is over,
\* while (Date.now() < deadline); past the deadline it returns false
WaitSleepDone(k) ==
    /\ svc[k].pc = "waitSleep" /\ svc[k].wakeIn = 0
    /\ svc' = IF svc[k].left > 0
              THEN [svc EXCEPT ![k].pc = "waitCollect",
                               ![k].wakeIn = CollectSleepMs]
              ELSE [svc EXCEPT ![k].pc = "finalCollect",
                               ![k].closed = <<FALSE>>,
                               ![k].wakeIn = CollectSleepMs]
    /\ UNCHANGED <<orderMeta, vPositions, vResting, vCloses, cacheWarm, faults>>
    /\ UNCHANGED <<impl, notTrade>>

\* closePerpPositions: remainingPositions = await this.collectPositions()
FinalPoll(k) ==
    /\ svc[k].pc = "finalCollect" /\ svc[k].wakeIn = 0
    /\ AfterClose(k, collectPositions)
    /\ UNCHANGED <<vPositions, vResting, vCloses, cacheWarm, faults>>
    /\ UNCHANGED <<impl, notTrade>>

(* The venue *)

Sign(dir) == IF dir = "LONG" THEN 1 ELSE -1

\* a resting limit order fills, wholly or in part
VenueFill(o, x) ==
    /\ o \in vResting /\ x <= o.rem
    /\ vPositions' = [vPositions EXCEPT ![o.market] = @ + Sign(o.dir) * x]
    /\ vResting' = (vResting \ {o}) \cup
                     (IF o.rem = x THEN {} ELSE {[o EXCEPT !.rem = o.rem - x]})
    /\ UNCHANGED <<orderMeta, svc, vCloses, cacheWarm, faults>>
    /\ UNCHANGED <<impl, notTrade>>

\* the user account arrives in authorityDrift.userAccountCache
CacheWarms ==
    /\ ~cacheWarm
    /\ cacheWarm' = TRUE
    /\ UNCHANGED <<orderMeta, svc, vPositions, vResting, vCloses, faults>>
    /\ UNCHANGED <<impl, notTrade>>

(* Time *)

Sleepers ==
    {k \in CallIds : svc[k].pc \in {"fillCollect", "fillSleep", "closeCollect",
                                    "waitCollect", "waitSleep", "finalCollect"}}

\* time passes until the next timer fires, which it does lag ms late
Elapse(lag) ==
    /\ Sleepers # {}
    /\ \A k \in Sleepers : svc[k].wakeIn > 0
    /\ LET d == lag + CHOOSE x \in {svc[k].wakeIn : k \in Sleepers} :
                         \A k \in Sleepers : x <= svc[k].wakeIn
       IN svc' = [k \in CallIds |->
                    IF k \in Sleepers
                    THEN [svc[k] EXCEPT !.wakeIn = Max(0, @ - d),
                                        !.left = Max(0, @ - d)]
                    ELSE svc[k]]
    /\ UNCHANGED <<orderMeta, vPositions, vResting, vCloses, cacheWarm, faults>>
    /\ UNCHANGED <<impl, notTrade>>

TradeNext ==
    \/ \E k \in CallIds, req \in PlaceRequests : CallPlace(k, req)
    \/ \E k \in CallIds : Submitted(k)
    \/ \E k \in CallIds : SubmitFailed(k)
    \/ \E k \in CallIds : FillPoll(k)
    \/ \E k \in CallIds : PollFailed(k)
    \/ \E k \in CallIds : FillSleepDone(k)
    \/ \E k \in CallIds, op \in CloseOps, id \in OrderIds : CallClose(k, op, id)
    \/ \E k \in CallIds : CloseStarted(k)
    \/ \E k \in CallIds : CloseInitFailed(k)
    \/ \E k \in CallIds : ClosePoll(k)
    \/ \E k \in CallIds, executed \in BOOLEAN : CloseSent(k, executed)
    \/ \E k \in CallIds : CloseSendFailed(k)
    \/ \E k \in CallIds : WaitPoll(k)
    \/ \E k \in CallIds : WaitSleepDone(k)
    \/ \E k \in CallIds : FinalPoll(k)
    \/ \E o \in vResting, x \in FillChunks : VenueFill(o, x)
    \/ CacheWarms
    \/ \E lag \in TimerLags : Elapse(lag)

-----------------------------------------------------------------------------
(* The wait loops on their own: one order placed and waited for, then one    *)
(* close.  Each timer fires in the end, and a poll that is due completes.     *)

MaxWaitCalls == 2
WaitCallIds == 1..MaxWaitCalls

WaitsNext ==
    \/ \E k \in WaitCallIds, req \in PlaceRequests : CallPlace(k, req)
    \/ \E k \in WaitCallIds : Submitted(k)
    \/ \E k \in WaitCallIds : FillPoll(k)
    \/ \E k \in WaitCallIds : PollFailed(k)
    \/ \E k \in WaitCallIds : FillSleepDone(k)
    \/ \E k \in WaitCallIds, op \in CloseOps, id \in OrderIds : CallClose(k, op, id)
    \/ \E k \in WaitCallIds : CloseStarted(k)
    \/ \E k \in WaitCallIds : ClosePoll(k)
    \/ \E k \in WaitCallIds, executed \in BOOLEAN : CloseSent(k, executed)
    \/ \E k \in WaitCallIds : WaitPoll(k)
    \/ \E k \in WaitCallIds : WaitSleepDone(k)
    \/ \E k \in WaitCallIds : FinalPoll(k)
    \/ \E o \in vResting, x \in FillChunks : VenueFill(o, x)
    \/ CacheWarms
    \/ \E lag \in TimerLags : Elapse(lag)

\* setTimeout callbacks run once their time has come, and an awaited
\* collectPositions() settles
WaitsFairness ==
    /\ \A lag \in TimerLags : WF_vars(Elapse(lag))
    /\ \A k \in WaitCallIds :
          /\ WF_vars(FillPoll(k) \/ PollFailed(k))
          /\ WF_vars(FillSleepDone(k))
          /\ WF_vars(WaitPoll(k) \/ PollFailed(k))
          /\ WF_vars(WaitSleepDone(k))

-----------------------------------------------------------------------------
(* The trading service as the grid's handlers drive it (actions.ts): each box *)
(* places one order under its id when it is created and closes under that id  *)
(* when it is triggered or expires.  The calls then run as above.             *)

\* the calls made so far with operation op for box b
BoxCalls(op, b) == {c \in CallIds : svc[c].op = op /\ svc[c].id = b}

\* box ids are random strings: they are numbered in the order of creation
NextBox(b) ==
    b = 1 + Cardinality({x \in BoxIds : BoxCalls("placeLimitOrder", x) # {}})

\* placeCreateOrder(order): placeLimitOrder({orderId: order.id,
\* targetPrice: midPrice, waitForFill: false}), once per box
placeCreateOrder(k, b) ==
    /\ NextBox(b)
    /\ \E size \in RequestSizes, targetPrice \in TargetPrices :
         CallPlace(k, [orderId |-> b, direction |-> <<>>, marketIndex |-> <<>>,
                       waitForFill |-> <<FALSE>>, size |-> size,
                       targetPrice |-> targetPrice])

\* a created box makes one terminal transition at most
MayEnd(b) ==
    /\ BoxCalls("placeLimitOrder", b) # {}
    /\ BoxCalls("handleTrigger", b) \cup BoxCalls("handleExpiry", b) = {}

\* placeTriggerOrder(order): handleTrigger(order.id)
placeTriggerOrder(k, b) == MayEnd(b) /\ CallClose(k, "handleTrigger", b)

\* placeExpireCleanup(order): handleExpiry(order.id)
placeExpireCleanup(k, b) == MayEnd(b) /\ CallClose(k, "handleExpiry", b)

BoxTradeNext ==
    \/ \E k \in CallIds, b \in BoxIds : placeCreateOrder(k, b)
    \/ \E k \in CallIds, b \in BoxIds : placeTriggerOrder(k, b)
    \/ \E k \in CallIds, b \in BoxIds : placeExpireCleanup(k, b)
    \/ \E k \in CallIds : Submitted(k)
    \/ \E k \in CallIds : SubmitFailed(k)
    \/ \E k \in CallIds : PollFailed(k)
    \/ \E k \in CallIds : CloseStarted(k)
    \/ \E k \in CallIds : CloseInitFailed(k)
    \/ \E k \in CallIds : ClosePoll(k)
    \/ \E k \in CallIds, executed \in BOOLEAN : CloseSent(k, executed)
    \/ \E k \in CallIds : CloseSendFailed(k)
    \/ \E k \in CallIds : WaitPoll(k)
    \/ \E k \in CallIds : WaitSleepDone(k)
    \/ \E k \in CallIds : FinalPoll(k)
    \/ \E o \in vResting, x \in FillChunks : VenueFill(o, x)
    \/ CacheWarms
    \/ \E lag \in TimerLags : Elapse(lag)

-----------------------------------------------------------------------------
(* The direction of an order: request.direction ?? inferDirection(...), on    *)
(* its own, over every request direction, target price and oracle read.       *)
(* Prices are in raw oracle units.                                            *)

MaxPrice == 4

OracleReads == {OracleData(p) : p \in 0..MaxPrice} \cup {OracleNothing, OracleThrows}

DirInit ==
    /\ reqDirection \in {<<>>} \cup {<<d>> : d \in Directions}
    /\ reqTargetPrice \in 0..MaxPrice
    /\ oracleRead \in OracleReads
    /\ usedDirection = "unset"

DirIdle ==
    /\ reqDirection = <<>>
    /\ reqTargetPrice = 0
    /\ oracleRead = OracleNothing
    /\ usedDirection = "unset"

\* placeLimitOrder settles the direction it submits, records and returns
PlaceResolvesDirection ==
    /\ usedDirection = "unset"
    /\ usedDirection' = ResolveDirection(reqDirection, reqTargetPrice, oracleRead)
    /\ UNCHANGED <<reqDirection, reqTargetPrice, oracleRead>>
    /\ UNCHANGED notDir

DirNext == PlaceResolvesDirection

-----------------------------------------------------------------------------
(* The order event bus: emitOrderEvent / onOrderEvent over an EventTarget.    *)
(* A task's synchronous code subscribes, unsubscribes and publishes; the      *)
(* microtasks queued meanwhile run, first in first out, once it has ended.    *)

MaxEvents == 3
MaxHandlers == 2

OrderEventTypes == {"order:create", "order:trigger", "order:expire"}
Handlers == 1..MaxHandlers

BusInit ==
    /\ listeners = [t \in OrderEventTypes |-> <<>>]
    /\ microtasks = <<>>
    /\ running = "none"
    /\ inEmit = 0
    /\ published = <<>>
    /\ returned = {}
    /\ owed = {}
    /\ received = [h \in Handlers |-> <<>>]

\* the handlers that are on the bus
Subscribed == {h \in Handlers : \E t \in OrderEventTypes, n \in 1..MaxHandlers :
                                   n <= Len(listeners[t]) /\ listeners[t][n] = h}

\* a callback put ahead of the ones already waiting
QueueMicrotask_AtFront(queue, callback) == <<callback>> \o queue

\* Promise.resolve().then(callback): the callback joins the end of the queue
QueueMicrotask(queue, callback) == Append(queue, callback)

\* the callbacks of the listeners one dispatch calls, queued one by one
RECURSIVE QueueAll(_, _)
QueueAll(queue, callbacks) ==
    IF callbacks = <<>> THEN queue
    ELSE QueueAll(QueueMicrotask(queue, Head(callbacks)), Tail(callbacks))

\* a task starts: the event loop has drained the microtask queue
BusTaskStart ==
    /\ running = "none" /\ microtasks = <<>>
    /\ running' = "task"
    /\ UNCHANGED <<listeners, microtasks, inEmit, published, returned, owed,
                   received>>
    /\ UNCHANGED notBus

\* its synchronous code has run to the end
BusTaskEnd ==
    /\ running = "task" /\ inEmit = 0
    /\ running' = "none"
    /\ UNCHANGED <<listeners, microtasks, inEmit, published, returned, owed,
                   received>>
    /\ UNCHANGED notBus

\* onOrderEvent(type, handler): bus.addEventListener(type, listener)
onOrderEvent(h, type) ==
    /\ running = "task" /\ inEmit = 0
    /\ h \notin Subscribed
    /\ listeners' = [listeners EXCEPT ![type] = Append(@, h)]
    /\ UNCHANGED <<microtasks, running, inEmit, published, returned, owed,
                   received>>
    /\ UNCHANGED notBus

\* the function onOrderEvent returned: bus.removeEventListener(type, listener)
Unsubscribe(h) ==
    /\ running = "task" /\ inEmit = 0
    /\ h \in Subscribed
    /\ listeners' = [t \in OrderEventTypes |->
                       SelectSeq(listeners[t], LAMBDA x : x # h)]
    /\ UNCHANGED <<microtasks, running, inEmit, published, returned, owed,
                   received>>
    /\ UNCHANGED notBus

\* a publish that dispatches and runs the handlers inside the call
emitOrderEvent_Synchronous(type) ==
    /\ running = "task" /\ inEmit = 0
    /\ Len(published) < MaxEvents
    /\ LET e == Len(published) + 1
       IN /\ published' = Append(published, type)
          /\ inEmit' = e
          /\ owed' = owed \cup {<<e, listeners[type][n]>> :
                                   n \in 1..Len(listeners[type])}
          /\ received' = [h \in Handlers |->
                IF \E n \in 1..Len(listeners[type]) : listeners[type][n] = h
                THEN Append(received[h], [event |-> e, type |-> type,
                                          early |-> TRUE, threw |-> FALSE,
                                          off |-> FALSE])
                ELSE received[h]]
    /\ UNCHANGED <<listeners, microtasks, running, returned>>
    /\ UNCHANGED notBus

\* emitOrderEvent(type, detail) is called:
\* Promise.resolve().then(() => bus.dispatchEvent(...)) queues the dispatch
emitOrderEvent(type) ==
    /\ running = "task" /\ inEmit = 0
    /\ Len(published) < MaxEvents
    /\ published' = Append(published, type)
    /\ inEmit' = Len(published) + 1
    /\ microtasks' = QueueMicrotask(microtasks,
                            [kind |-> "dispatch", event |-> Len(published) + 1,
                             type |-> type, handler |-> 0])
    /\ UNCHANGED <<listeners, running, returned, owed, received>>
    /\ UNCHANGED notBus

\* emitOrderEvent returns to its caller
EmitReturns ==
    /\ inEmit # 0
    /\ returned' = returned \cup {inEmit}
    /\ inEmit' = 0
    /\ UNCHANGED <<listeners, microtasks, running, published, owed, received>>
    /\ UNCHANGED notBus

\* the microtask of emitOrderEvent: bus.dispatchEvent calls the listeners of
\* the type in the order they were added, and each queues its own microtask
Dispatch ==
    /\ running = "none" /\ microtasks # <<>>
    /\ Head(microtasks).kind = "dispatch"
    /\ LET d == Head(microtasks)
           ls == listeners[d.type]
       IN /\ microtasks' = QueueAll(Tail(microtasks),
                 [n \in 1..Len(ls) |-> [kind |-> "handle", event |-> d.event,
                                        type |-> d.type, handler |-> ls[n]]])
          /\ owed' = owed \cup {<<d.event, ls[n]>> : n \in 1..Len(ls)}
    /\ UNCHANGED <<listeners, running, inEmit, published, returned, received>>
    /\ UNCHANGED notBus

\* a listener whose handler's error ends the delivery of what is queued
RunHandler_Uncaught(throws) ==
    /\ running = "none" /\ microtasks # <<>>
    /\ Head(microtasks).kind = "handle"
    /\ LET t == Head(microtasks)
       IN received' = [received EXCEPT ![t.handler] =
              Append(@, [event |-> t.event, type |-> t.type,
                         early |-> t.event \notin returned, threw |-> throws,
                         off |-> t.handler \notin Subscribed])]
    /\ microtasks' = IF throws THEN <<>> ELSE Tail(microtasks)
    /\ UNCHANGED <<listeners, running, inEmit, published, returned, owed>>
    /\ UNCHANGED notBus

\* the microtask of a listener: try { handler(detail) } catch { console.error }
RunHandler(throws) ==
    /\ running = "none" /\ microtasks # <<>>
    /\ Head(microtasks).kind = "handle"
    /\ LET t == Head(microtasks)
       IN received' = [received EXCEPT ![t.handler] =
              Append(@, [event |-> t.event, type |-> t.type,
                         early |-> t.event \notin returned, threw |-> throws,
                         off |-> t.handler \notin Subscribed])]
    /\ microtasks' = Tail(microtasks)
    /\ UNCHANGED <<listeners, running, inEmit, published, returned, owed>>
    /\ UNCHANGED notBus

\* the function onOrderEvent returned is handed to a promise continuation:
\* Promise.resolve().then(off)
DeferUnsubscribe(h) ==
    /\ running = "task" /\ inEmit = 0
    /\ h \in Subscribed
    /\ \A n \in 1..Len(microtasks) : microtasks[n].kind # "off"
    /\ microtasks' = QueueMicrotask(microtasks,
                            [kind |-> "off", event |-> 0, type |-> "none",
                             handler |-> h])
    /\ UNCHANGED <<listeners, running, inEmit, published, returned, owed,
                   received>>
    /\ UNCHANGED notBus

\* that continuation runs: bus.removeEventListener(type, listener)
RunUnsubscribe ==
    /\ running = "none" /\ microtasks # <<>>
    /\ Head(microtasks).kind = "off"
    /\ listeners' = [t \in OrderEventTypes |->
                       SelectSeq(listeners[t],
                                 LAMBDA x : x # Head(microtasks).handler)]
    /\ microtasks' = Tail(microtasks)
    /\ UNCHANGED <<running, inEmit, published, returned, owed, received>>
    /\ UNCHANGED notBus

BusNext ==
    \/ BusTaskStart
    \/ BusTaskEnd
    \/ \E h \in Handlers, t \in OrderEventTypes : onOrderEvent(h, t)
    \/ \E h \in Handlers : Unsubscribe(h)
    \/ \E t \in OrderEventTypes : emitOrderEvent(t)
    \/ EmitReturns
    \/ Dispatch
    \/ \E throws \in BOOLEAN : RunHandler(throws)

\* the bus with unsubscribing from a task and from a promise continuation,
\* and handlers that return
UnsubscribeNext ==
    \/ BusTaskStart
    \/ BusTaskEnd
    \/ \E h \in Handlers, t \in OrderEventTypes : onOrderEvent(h, t)
    \/ \E h \in Handlers : Unsubscribe(h)
    \/ \E h \in Handlers : DeferUnsubscribe(h)
    \/ \E t \in OrderEventTypes : emitOrderEvent(t)
    \/ EmitReturns
    \/ Dispatch
    \/ RunHandler(FALSE)
    \/ RunUnsubscribe

-----------------------------------------------------------------------------
(* Specifications: one per part, the other parts at rest *)

Init == GridInit /\ PnlInit /\ InitIdle /\ FillIdle /\ TradeIdle /\ DirIdle /\ BusInit /\ CallsInit
Next == GridNext
Spec == Init /\ [][Next]_vars

PnlSpecInit == GridInit /\ PnlInit /\ InitIdle /\ FillIdle /\ TradeIdle /\ DirIdle /\ BusInit /\ CallsInit
SpecPnl == PnlSpecInit /\ [][PnlNext]_vars

InitSpecInit == GridInit /\ PnlInit /\ InitInit /\ FillIdle /\ TradeIdle /\ DirIdle /\ BusInit /\ CallsInit
SpecInit == InitSpecInit /\ [][InitNext]_vars

FillSpecInit == GridInit /\ PnlInit /\ InitIdle /\ FillInit /\ TradeIdle /\ DirIdle /\ BusInit /\ CallsInit
SpecFill == FillSpecInit /\ [][FillNext]_vars

TradeSpecInit == GridInit /\ PnlInit /\ InitIdle /\ FillIdle /\ TradeInit /\ DirIdle /\ BusInit /\ CallsInit
SpecTrade == TradeSpecInit /\ [][TradeNext]_vars

DriftTradeSpecInit ==
    GridInit /\ PnlInit /\ InitIdle /\ FillIdle /\ DriftTradeInit /\ DirIdle /\ BusInit /\ CallsInit
SpecTradeDrift == DriftTradeSpecInit /\ [][TradeNext]_vars

SpecBoxTrade == DriftTradeSpecInit /\ [][BoxTradeNext]_vars

DirSpecInit == GridInit /\ PnlInit /\ InitIdle /\ FillIdle /\ TradeIdle /\ DirInit /\ BusInit /\ CallsInit
SpecDirection == DirSpecInit /\ [][DirNext]_vars

SpecBus == Init /\ [][BusNext]_vars

SpecUnsubscribe == Init /\ [][UnsubscribeNext]_vars

SpecWaits == TradeSpecInit /\ [][WaitsNext]_vars /\ WaitsFairness

SpecGridCalls == Init /\ [][GridCallsNext]_vars

-----------------------------------------------------------------------------
(* Properties of the grid, checked under Spec *)

CreatedIds == 1..(nextId - 1)

\* the status of a created box; a box deleted from the map is "removed"
StatusOf(id) == IF id \in DOMAIN orders THEN orders[id].status ELSE "removed"

\* C1: at no time do two pending boxes share a grid cell (i, j), whatever the
\* sequence of creations (createAt or click), ticks, price updates,
\* granularity changes and removal timers.
C1_NoTwoPendingShareCell ==
    \A a, b \in DOMAIN orders :
        (a # b /\ orders[a].status = "pending" /\ orders[b].status = "pending")
            => cellKey(orders[a].i, orders[a].j) # cellKey(orders[b].i, orders[b].j)

\* two pending boxes exist at once, after a creation was refused or a cell
\* was released and taken again
C1_Witness ==
    /\ \E a, b \in DOMAIN orders :
          a # b /\ orders[a].status = "pending" /\ orders[b].status = "pending"
    /\ Cardinality(occupied) = 2

\* C2: for every box the events emitted are order:create first, then at most
\* one terminal event, order:trigger or order:expire, never both, and none
\* before the create.
C2_CreateThenAtMostOneTerminal ==
    \A id \in BoxIds :
        emitted[id] \in {<<>>, <<"order:create">>,
                         <<"order:create", "order:trigger">>,
                         <<"order:create", "order:expire">>}

\* one box has been created and triggered, another created and expired
C2_Witness ==
    /\ \E id \in BoxIds : emitted[id] = <<"order:create", "order:trigger">>
    /\ \E id \in BoxIds : emitted[id] = <<"order:create", "order:expire">>

\* how many times op occurs in the sequence s
Count(s, op) == Cardinality({k \in 1..Len(s) : s[k] = op})

\* C3: every box whose status has left pending has had its matching event
\* emitted exactly once, and once the bus has delivered it the matching
\* trading call (handleTrigger for triggered, handleExpiry for expired) has
\* been made exactly once; no box is terminal or removed without them.
C3_TransitionEmitsAndCalls ==
    \A id \in CreatedIds :
        LET st == StatusOf(id)
            trg == Count(emitted[id], "order:trigger")
            exd == Count(emitted[id], "order:expire")
        IN /\ st = "triggered" => trg = 1
           /\ st = "expired" => exd = 1
           /\ st = "removed" => trg + exd = 1
           /\ (st # "pending" /\ busQueue = <<>>) =>
                 /\ Count(calls[id], "handleTrigger") = trg
                 /\ Count(calls[id], "handleExpiry") = exd
                 /\ Count(calls[id], "handleTrigger")
                      + Count(calls[id], "handleExpiry") = 1

\* C17: a change of the granularity percent while boxes exist and a first
\* price has been seen sets the price step from the first price and the new
\* percent, puts every box's p0 and p1 at j * priceStep -/+ priceStep / 2 for
\* that step, and leaves the set of boxes, each box's i, j, t0, t1, status and
\* firedAt, and the occupied cells as they were.
C17_GranularityRecomputesOnlyPriceBounds ==
    [][(stepPPercent' # stepPPercent /\ hasFirstPrice /\ DOMAIN orders # {}) =>
          /\ priceStep' = StepFromPercent(firstPrice, stepPPercent')
          /\ DOMAIN orders' = DOMAIN orders
          /\ occupied' = occupied
          /\ \A id \in DOMAIN orders :
               /\ orders'[id].p0 = orders[id].j * priceStep' - priceStep' \div 2
               /\ orders'[id].p1 = orders[id].j * priceStep' + priceStep' \div 2
               /\ orders'[id] = [orders[id] EXCEPT !.p0 = orders'[id].p0,
                                                  !.p1 = orders'[id].p1]
      ]_vars

\* a box created under the first price step has had its bounds moved to a
\* different step
C17_Witness ==
    /\ hasFirstPrice
    /\ priceStep # StepFromPercent(firstPrice, stepPPercent0)
    /\ \E id \in DOMAIN orders :
         /\ orders[id].j = MathRound(firstPrice,
                                     StepFromPercent(firstPrice, stepPPercent0))
         /\ orders[id].p0 = orders[id].j * priceStep - priceStep \div 2
         /\ orders[id].p0 > firstPrice

-----------------------------------------------------------------------------
(* Properties of the boxes' lifecycle, checked under Spec *)

\* C21: the status of a box in the map changes only from pending to triggered
\* or from pending to expired; a triggered or expired box keeps its status
\* through every later step (ticks, prices, granularity changes) for as long
\* as it is in the map, and a removed box's id does not come back.
C21_StatusOnlyLeavesPending ==
    [][/\ \A id \in DOMAIN orders \cap DOMAIN orders' :
             orders'[id].status # orders[id].status =>
                 /\ orders[id].status = "pending"
                 /\ orders'[id].status \in {"triggered", "expired"}
       /\ \A id \in DOMAIN orders' \ DOMAIN orders :
             id = nextId /\ orders'[id].status = "pending"
      ]_vars

\* a triggered box is still in the map after a later tick and after the
\* price has left its band
C21_Witness ==
    \E id \in DOMAIN orders :
        /\ orders[id].status = "triggered"
        /\ orders[id].firedAt < now
        /\ ~tickDue
        /\ price > Max(orders[id].p0, orders[id].p1)

\* C22: on each tick, with the time now and the latest price, a pending box
\* becomes triggered exactly when t0 <= now <= t1 and
\* min(p0, p1) <= price <= max(p0, p1); otherwise it becomes expired exactly
\* when now > t1; otherwise it stays pending.
C22_TickDecidesEachPendingBox ==
    [][(tickDue /\ ~tickDue') =>
          \A id \in DOMAIN orders :
              orders[id].status = "pending" =>
                  LET o == orders[id]
                      trig == /\ o.t0 <= now /\ now <= o.t1
                              /\ Min(o.p0, o.p1) <= price
                              /\ price <= Max(o.p0, o.p1)
                  IN /\ id \in DOMAIN orders'
                     /\ orders'[id].status =
                           IF trig THEN "triggered"
                           ELSE IF now > o.t1 THEN "expired"
                           ELSE "pending"
      ]_vars

\* when the box with this id left pending, if a removal timer records it
TransitionTime(id) ==
    IF orders[id].status = "triggered" THEN orders[id].firedAt
    ELSE LET tms == {tm \in timers : tm.id = id}
         IN IF tms = {} THEN now
            ELSE (CHOOSE x \in tms : TRUE).due - RemoveDelayMs

\* C23: a box leaves the map only after it has become triggered or expired,
\* and not before the grace delay has gone by since the tick that changed
\* its status.
C23_RemovedOnlyAfterGraceDelay ==
    [][\A id \in DOMAIN orders \ DOMAIN orders' :
          /\ orders[id].status \in {"triggered", "expired"}
          /\ now >= TransitionTime(id) + RemoveDelayMs
      ]_vars

\* the cells of the boxes in the map
BoxCells == {cellKey(orders[id].i, orders[id].j) : id \in DOMAIN orders}

\* C24: the occupied set is always the set of the cells of the boxes in the
\* map; no removal, the delayed removal of an earlier box included, releases
\* the cell of a box that is still in the map.
C24_OccupiedIsCellsOfBoxes == occupied = BoxCells

\* C25: every box's price bounds are those of its cell under the current
\* price step, p0 = j * priceStep - priceStep / 2 and
\* p1 = j * priceStep + priceStep / 2, and its time bounds are
\* i * stepMs -/+ stepMs / 2, boxes created before the first price included.
C25_BoundsFollowCellAndStep ==
    \A id \in DOMAIN orders :
        LET o == orders[id]
        IN /\ o.p0 = o.j * priceStep - priceStep \div 2
           /\ o.p1 = o.j * priceStep + priceStep \div 2
           /\ o.t0 = o.i * stepMs - stepMs \div 2
           /\ o.t1 = o.i * stepMs + stepMs \div 2

\* C38: at the moment a box is created, by createAt or by a click, its centre
\* time i * stepMs is at or after the current time, so its t1 lies in the
\* future: no box is created already expired.
C38_BoxCreatedInCellNotInPast ==
    [][nextId' = nextId + 1 =>
          /\ orders'[nextId].i * stepMs >= now
          /\ orders'[nextId].t1 > now]_vars

-----------------------------------------------------------------------------
(* Properties of the grid and its trading calls, checked under SpecGridCalls *)

\* what a tick makes of every pending box, by its time and price bounds
EveryPendingBoxDecided ==
    hasFirstPrice =>
        \A id \in DOMAIN orders :
            orders[id].status = "pending" =>
                LET o == orders[id]
                    trig == /\ o.t0 <= now /\ now <= o.t1
                            /\ Min(o.p0, o.p1) <= price
                            /\ price <= Max(o.p0, o.p1)
                IN /\ id \in DOMAIN orders'
                   /\ orders'[id].status =
                         IF trig THEN "triggered"
                         ELSE IF now > o.t1 THEN "expired"
                         ELSE "pending"

\* C26: the grid tick never waits for a trading call: whenever its period
\* has elapsed and no microtask is left, the tick can run, whatever calls
\* (placeLimitOrder, handleTrigger, handleExpiry) are still awaited, and the
\* tick that runs decides every pending box.
C26_TickNeverWaitsForCall ==
    (tickDue /\ busQueue = <<>>) => ENABLED (Tick /\ EveryPendingBoxDecided)

\* a box was triggered on a tick; its placeLimitOrder and handleTrigger calls
\* are both still awaited, the other box has had its own terminal event and
\* a later tick has removed it
C26_Witness ==
    \E a \in DOMAIN orders, b \in BoxIds :
        /\ a # b
        /\ orders[a].status = "triggered"
        /\ orders[a].firedAt < now
        /\ ~tickDue
        /\ calls[a] = <<"placeLimitOrder", "handleTrigger">>
        /\ {<<a, 1>>, <<a, 2>>} \subseteq Awaited
        /\ Len(emitted[b]) = 2
        /\ b \notin DOMAIN orders

\* the calls for a trigger or an expiry that have thrown
FailedCloses(s) ==
    {c \in s : /\ c[3] = "threw"
               /\ calls[c[1]][c[2]] \in {"handleTrigger", "handleExpiry"}}

\* C27: when the trading call made for a box's trigger or expiry fails, the
\* box keeps its status and stays in the map, nothing of the grid changes
\* (no event is published or withdrawn, the tick stays due or not as it
\* was), and the tick can still run and decide every pending box.
C27_FailedCallLeavesGridAlone ==
    [][FailedCloses(settled') # FailedCloses(settled) =>
          /\ UNCHANGED gridVars
          /\ (tickDue' /\ busQueue' = <<>>) =>
                 (ENABLED (Tick /\ EveryPendingBoxDecided))'
      ]_vars

\* the handleExpiry call of one box has thrown; the box was removed as usual,
\* and the other box has been triggered on a later tick
C27_Witness ==
    \E a, b \in BoxIds :
        /\ a # b
        /\ \E c \in FailedCloses(settled) : c[1] = a
        /\ a \notin DOMAIN orders
        /\ b \in DOMAIN orders
        /\ orders[b].status = "triggered"
        /\ emitted[a] = <<"order:create", "order:expire">>

-----------------------------------------------------------------------------
(* Properties of the PnL stream, checked under SpecPnl *)

\* the acquire() calls that have returned their release callback
Holders == {a \in Acquirers : acq[a].pc = "held"}

\* every acquire() issued so far has completed, and there is at least one
AcquiresCompleted ==
    /\ Holders # {}
    /\ \A a \in Acquirers : acq[a].pc \in {"idle", "held"}

\* C4: once N acquire() calls, concurrent or sequential, have all completed,
\* the subscriptions stay active while fewer than N of their release callbacks
\* have been invoked, and after the Nth all of them are torn down and the
\* published snapshot is the default one.
C4_LastReleaseTearsDown ==
    AcquiresCompleted =>
        IF \E a \in Holders : ~acq[a].released
        THEN started /\ HeldSubs \subseteq liveSubs /\ Cardinality(HeldSubs) = 3
        ELSE liveSubs = {} /\ ~started /\ currentState = defaultState

\* C5: however acquire() calls interleave, at most one subscription of each
\* kind is live, and none is live once the count is back at zero.
C5_OneSubscriptionPerKind ==
    /\ \A k \in SubKinds : Cardinality({s \in liveSubs : s.kind = k}) <= 1
    /\ refCount = 0 => liveSubs = {}

\* every acquire() issued so far has failed or had its release callback
\* invoked, and there is at least one
AllFailedOrReleased ==
    /\ \E a \in Acquirers : acq[a].pc # "idle"
    /\ \A a \in Acquirers :
         \/ acq[a].pc \in {"idle", "failed"}
         \/ acq[a].pc = "held" /\ acq[a].released

\* C31: under every interleaving of acquire and release, failing acquires
\* included, whenever every acquire() has either failed or had its release
\* callback invoked, the reference count is 0 and the subscriptions are
\* torn down.
C31_CountBalancedOnceAllFailedOrReleased ==
    AllFailedOrReleased => refCount = 0 /\ liveSubs = {} /\ ~started

\* what a release callback may change besides its own flag
StreamState ==
    <<refCount, started, markPriceSub, oraclePriceSub, userSub, liveSubs,
      currentState>>

\* C36: a release callback invoked a second or later time changes neither the
\* reference count nor the subscriptions nor the snapshot, and the reference
\* count is never negative.
C36_ReleaseIsIdempotent ==
    /\ [][\A a \in Acquirers :
            (acq[a].released /\ Release(a)) => UNCHANGED StreamState]_vars
    /\ [](refCount >= 0)

\* a release callback has been invoked twice while another caller holds the
\* stream
C36_Witness ==
    \E a, b \in Acquirers :
        /\ acq[a].invoked = 2
        /\ acq[b].pc = "held" /\ ~acq[b].released
        /\ refCount = 1 /\ started

\* C37: in every published snapshot hasPosition = false implies pnlUsd = 0
\* and pnlPct = 0, and while the reference count stays at zero no snapshot is
\* published.
C37_FlatSnapshotHasNoPnl ==
    /\ [](~currentState.hasPosition =>
             currentState.pnlUsd = 0 /\ currentState.pnlPct = 0)
    /\ [][(refCount = 0 /\ refCount' = 0) => currentState' = currentState]_vars

-----------------------------------------------------------------------------
(* Properties of initialize(), checked under SpecInit *)

\* C10: at most one attempt is in flight; a caller that arrived while an
\* attempt was in flight has, once that attempt has ended, the attempt's
\* outcome; and no attempt is started after one has succeeded.
C10_IdempotentAndCoalescing ==
    /\ Cardinality(InFlight) <= 1
    /\ \A c \in Callers :
         LET a == callers[c].during
         IN (a # 0 /\ attempts[a] \notin InFlightStages) =>
              /\ attempts[a] = "fulfilled" => callers[c].pc = "returned"
              /\ attempts[a] = "rejected" => callers[c].pc = "threw"
    /\ \A a \in 1..Len(attempts) :
         attempts[a] = "fulfilled" => a = Len(attempts)

\* C11: when an attempt fails, every caller that awaited it has the failure,
\* the in-flight marker is cleared, and a later initialize() call that finds
\* no attempt in flight starts a fresh attempt: it returns at once only if
\* some attempt has succeeded.
C11_FailurePropagatesAndRetryIsFresh ==
    /\ \A c \in Callers :
         LET a == callers[c].awaits
         IN (a # 0 /\ attempts[a] = "rejected") => callers[c].pc = "threw"
    /\ InFlight = {} => initializePromise = 0
    /\ \A c \in Callers :
         (callers[c].pc = "returned" /\ callers[c].awaits = 0
              /\ callers[c].during = 0)
            => \E a \in 1..Len(attempts) : attempts[a] = "fulfilled"

-----------------------------------------------------------------------------
(* Properties of the fill-wait match, checked under SpecFill *)

\* C6 as stated: a polled position in the requested direction is accepted if
\* and only if its raw size f is at least 0.95 * S, in exact arithmetic.
C6_AcceptsIffAtLeast95Percent ==
    (accepted # "unset" /\ polledDirection = wantDirection) =>
        (accepted = "accepted" <=> 100 * polledAmount >= 95 * targetAmount)

\* C6 as amended: a polled position in the requested direction is accepted if
\* and only if its raw size f is at least 0.95 * S rounded down to a whole raw
\* unit, that is f > 0.95 * S - 1.
C6_AcceptsIffAtLeastFloor95Percent ==
    (accepted # "unset" /\ polledDirection = wantDirection) =>
        (accepted = "accepted" <=> 100 * polledAmount + 100 > 95 * targetAmount)

\* a partial fill inside the tolerance band has been accepted
C6_Witness ==
    /\ accepted = "accepted"
    /\ polledDirection = wantDirection
    /\ polledAmount < targetAmount
    /\ 100 * polledAmount >= 95 * targetAmount

-----------------------------------------------------------------------------
(* Properties of the trading service, checked under SpecTrade *)

\* every placeLimitOrder call for the order id of call k had ended when k began
PlacesEndedBefore(k) ==
    \A p \in CallIds :
        (svc[p].op = "placeLimitOrder" /\ svc[p].id = svc[k].id)
            => p \in svc[k].after

\* C7: a placeLimitOrder call with waitForFill whose fill-wait saw no matching
\* position before its deadline has returned normally, with position null and
\* with the signature, direction and market of the order it submitted; it has
\* not thrown.
C7_FillTimeoutReturnsNull ==
    \A k \in CallIds :
        svc[k].timedOut =>
            /\ svc[k].pc = "returned"
            /\ svc[k].position = NullPosition
            /\ svc[k].signature = k
            /\ \E m \in Markets, rem \in 0..svc[k].amount :
                  /\ svc[k].marketIndex = m
                  /\ rem < svc[k].amount \/
                        [k |-> k, market |-> m, dir |-> svc[k].direction,
                         rem |-> rem] \in vResting

\* a fill-wait has run to its deadline over an order that never filled
C7_Witness ==
    \E k \in CallIds :
        /\ svc[k].timedOut
        /\ svc[k].op = "placeLimitOrder"
        /\ \E o \in vResting : o.k = k /\ o.rem = svc[k].amount

\* C8: once a handleTrigger(id) that found metadata for id has completed, a
\* later handleTrigger(id) finds none and does the default close: default
\* market, any direction.
C8_SecondTriggerFindsNoMetadata ==
    \A k1, k2 \in CallIds :
        ( /\ svc[k1].op = "handleTrigger" /\ svc[k2].op = "handleTrigger"
          /\ svc[k1].id = svc[k2].id
          /\ svc[k1].hadMeta
          /\ PlacesEndedBefore(k1)
          /\ k1 \in svc[k2].after )
        => /\ ~svc[k2].hadMeta
           /\ svc[k2].direction = Undefined
           /\ svc[k2].marketIndex = MARKET_INDEX

\* C9: once a handleTrigger(id) or handleExpiry(id) that went as far as the
\* close has ended, by a result or by an error, there is no metadata entry for
\* id (no placeLimitOrder(id) being under way to write one).
C9_MetadataDeletedWhateverOutcome ==
    \A k \in CallIds :
        ( /\ svc[k].op \in CloseOps
          /\ Ended(k)
          /\ svc[k].hadMeta
          /\ PlacesEndedBefore(k) )
        => svc[k].id \notin DOMAIN orderMeta

-----------------------------------------------------------------------------
(* Properties of closing, checked under SpecTrade *)

\* the positions the user account holds when call k reads them that are on
\* the call's market and in its direction (any direction when it has none),
\* each with the market it really is on
MatchingPositions(k) ==
    LET hit(mkt) == /\ cacheWarm
                    /\ vPositions[mkt] # 0
                    /\ mkt = svc[k].marketIndex
                    /\ svc[k].direction # Undefined =>
                          svc[k].direction = (IF vPositions[mkt] > 0 THEN "LONG"
                                              ELSE "SHORT")
        ms == SelectSeq(Asc(Markets), hit)
    IN [n \in 1..Len(ms) |->
          [marketIndex |-> ms[n],
           directionEnum |-> IF vPositions[ms[n]] > 0 THEN "LONG" ELSE "SHORT",
           baseAssetAmountRaw |-> Abs(vPositions[ms[n]])]]

\* C13: a handleTrigger/handleExpiry call takes as its targets exactly the
\* open positions on its order's market and direction (any direction without
\* metadata), so none on another market, and sends for each target in turn
\* one reduce-only order on the target's market, in the opposite direction
\* and for the target's raw amount; it sends no other order.
C13_ClosesExactlyTheMatchingPositions ==
    [][\A k \in CallIds :
         /\ (svc[k].pc = "closeCollect" /\ svc'[k].pc = "closeSend") =>
               svc'[k].targets = MatchingPositions(k)
         /\ (svc[k].pc = "closeCollect" /\ svc'[k].pc = "returned") =>
               MatchingPositions(k) = <<>>
         /\ (svc[k].pc = "closeSend" /\ svc'[k].pc # "threw") =>
               LET p == Head(svc[k].targets)
               IN /\ vCloses' = vCloses \cup
                        {[k |-> k, market |-> p.marketIndex,
                          dir |-> IF p.directionEnum = "LONG" THEN "SHORT"
                                  ELSE "LONG",
                          amt |-> p.baseAssetAmountRaw]}
                  /\ svc'[k].targets = Tail(svc[k].targets)
                  /\ svc'[k].signatures = svc[k].signatures + 1
         /\ \A o \in vCloses' \ vCloses : o.k = k => svc[k].pc = "closeSend"
      ]_vars

\* C15: in the step in which a placeLimitOrder call returns, the metadata map
\* holds an entry for the call's order id whose direction and marketIndex are
\* those of the returned response.
C15_ReturnLeavesMetadata ==
    [][\A k \in CallIds :
         (svc[k].pc # "returned" /\ svc'[k].pc = "returned"
              /\ svc'[k].op = "placeLimitOrder") =>
            /\ svc'[k].id \in DOMAIN orderMeta'
            /\ orderMeta'[svc'[k].id] =
                  [direction |-> svc'[k].direction,
                   marketIndex |-> svc'[k].marketIndex]
      ]_vars

\* an order placed on a market other than the default one has returned and its
\* metadata is on record
C15_Witness ==
    \E k \in CallIds :
        /\ svc[k].op = "placeLimitOrder" /\ svc[k].pc = "returned"
        /\ svc[k].marketIndex # MARKET_INDEX
        /\ svc[k].id \in DOMAIN orderMeta
        /\ orderMeta[svc[k].id] = [direction |-> svc[k].direction,
                                    marketIndex |-> svc[k].marketIndex]

\* C16: a placeLimitOrder call whose request leaves waitForFill out polls for
\* the fill before it returns, so it returns with the filled position or on
\* the deadline; a call with waitForFill = false never polls and returns
\* without a position.  Checked for each class behind the interface:
\* ArcadePerpService under SpecTrade, DriftPerpTradingService under
\* SpecTradeDrift.
C16_WaitForFillDefaultsToTrue ==
    \A k \in CallIds :
        svc[k].op = "placeLimitOrder" =>
            /\ (svc[k].waitForFill = <<>> /\ svc[k].pc = "returned") =>
                  (svc[k].position # NullPosition \/ svc[k].timedOut)
            /\ svc[k].waitForFill = <<>> => svc[k].pc # "submit"
            /\ svc[k].waitForFill = <<FALSE>> =>
                  /\ svc[k].pc \notin {"submitThenWait", "fillCollect", "fillSleep"}
                  /\ svc[k].pc = "returned" =>
                        (svc[k].position = NullPosition /\ ~svc[k].timedOut)

-----------------------------------------------------------------------------
(* Properties of the wait loops, checked under SpecTrade *)

FillWaitPcs == {"fillCollect", "fillSleep"}
CloseWaitPcs == {"waitCollect", "waitSleep"}

\* C28: a failure of one position poll inside the fill-wait or the close-wait
\* loop is swallowed and the poll retried on the next interval: no call
\* throws out of a poll of either loop, and so the loops end only by a match
\* (or no position) or by their deadline.
C28_PollFailureIsSwallowed ==
    [][\A k \in CallIds :
          svc[k].pc \in {"fillCollect", "waitCollect"} => svc'[k].pc # "threw"
      ]_vars

\* C29: the close-wait reports true exactly when a poll of its loop finds no
\* open position at all; while any position is open, in whatever market or
\* direction, a poll is followed by a sleep and another poll, and the loop
\* ends with false only once its deadline has passed, and never by throwing.
C29_CloseWaitTrueIffNoPositionLeft ==
    [][\A k \in CallIds :
          /\ (svc[k].pc \in CloseWaitPcs /\ svc'[k].pc \notin CloseWaitPcs) =>
                 /\ svc'[k].pc = "finalCollect"
                 /\ svc'[k].closed =
                       <<svc[k].pc = "waitCollect" /\ collectPositions = <<>>>>
                 /\ svc'[k].closed = <<FALSE>> => svc[k].left = 0
          /\ (svc[k].pc = "waitCollect" /\ svc'[k].pc # "waitCollect"
                 /\ collectPositions # <<>>) => svc'[k].pc = "waitSleep"
      ]_vars

\* the placeLimitOrder calls for order id that have submitted their order and
\* are in their fill-wait
PlacesWaitingForFill(id) ==
    {p \in CallIds : /\ svc[p].op = "placeLimitOrder" /\ svc[p].id = id
                     /\ svc[p].pc \in FillWaitPcs}

\* C34: a handleTrigger(id) or handleExpiry(id) that looks the order up while
\* placeLimitOrder(id) has submitted its order and is still waiting for the
\* fill sees the direction and the market chosen for that order, and so
\* closes only positions in that direction.
C34_CloseSeesOrderOnceSubmitted ==
    [][\A k \in CallIds : \A p \in PlacesWaitingForFill(svc[k].id) :
          CloseStarted(k) =>
              /\ svc'[k].direction = svc[p].direction
              /\ svc'[k].marketIndex = svc[p].marketIndex]_vars

\* C35: the position placeLimitOrder returns as the fill of an order is on
\* the order's market: its marketIndex equals the marketIndex the order was
\* placed with.
C35_FillIsOnTheOrdersMarket ==
    \A k \in CallIds :
        (/\ svc[k].op = "placeLimitOrder" /\ svc[k].pc = "returned"
         /\ svc[k].position # NullPosition)
        => svc[k].position.marketIndex = svc[k].marketIndex

-----------------------------------------------------------------------------
(* Properties of unsubscribing, checked under SpecUnsubscribe *)

\* C39: once the unsubscribe function returned by onOrderEvent has returned,
\* the handler is never invoked again, neither for events published
\* afterwards nor for events published before and not yet delivered: no
\* invocation finds its handler off the bus.
C39_NotInvokedAfterUnsubscribe ==
    \A h \in Handlers : \A n \in 1..MaxEvents :
        n <= Len(received[h]) => ~received[h][n].off

-----------------------------------------------------------------------------
(* Properties of the wait loops' ending, checked under SpecWaits *)

\* C30: every fill-wait and every close-wait ends, whatever the venue
\* reports: with timers that fire and polls that settle, a call in the
\* fill-wait comes to return (with the match or null) unless a poll has
\* thrown, a call in the close-wait comes to leave it with true or false
\* unless a poll has thrown, and the loop check that first finds the deadline
\* passed ends the loop with null or false.
C30_WaitLoopsEnd ==
    /\ \A k \in WaitCallIds :
          (svc[k].pc \in FillWaitPcs) ~> (svc[k].pc \in {"returned", "threw"})
    /\ \A k \in WaitCallIds :
          (svc[k].pc \in CloseWaitPcs) ~>
              \/ svc[k].pc = "threw"
              \/ svc[k].pc \notin CloseWaitPcs /\ svc[k].closed # <<>>
    /\ [][\A k \in WaitCallIds :
            /\ (svc[k].pc = "fillSleep" /\ svc[k].wakeIn = 0 /\ svc[k].left = 0
                 /\ svc'[k] # svc[k]) =>
                   /\ svc'[k].pc = "returned"
                   /\ svc'[k].position = NullPosition
            /\ (svc[k].pc = "waitSleep" /\ svc[k].wakeIn = 0 /\ svc[k].left = 0
                 /\ svc'[k] # svc[k]) =>
                   /\ svc'[k].pc = "finalCollect"
                   /\ svc'[k].closed = <<FALSE>>
        ]_vars

\* one call's fill-wait has ended on its deadline and the close-wait of the
\* other has ended on its own with a position still open
C30_Witness ==
    \E k, h \in WaitCallIds :
        /\ svc[k].op = "placeLimitOrder" /\ svc[k].pc = "returned"
        /\ svc[k].timedOut
        /\ svc[h].op \in CloseOps /\ svc[h].pc = "returned"
        /\ svc[h].closed = <<FALSE>>

-----------------------------------------------------------------------------
(* Properties of the boxes' orders, checked under SpecBoxTrade *)

\* how much of the limit order of placeLimitOrder call c has filled
Filled(c) ==
    IF svc[c].op # "placeLimitOrder" \/ svc[c].signature = 0 THEN 0
    ELSE LET resting == {o \in vResting : o.k = c}
         IN IF resting = {} THEN svc[c].amount
            ELSE svc[c].amount - (CHOOSE o \in resting : TRUE).rem

RECURSIVE OwnFillOf(_, _, _)
OwnFillOf(cs, b, mkt) ==
    IF cs = {} THEN 0
    ELSE LET c == CHOOSE x \in cs : TRUE
         IN (IF svc[c].id = b /\ svc[c].marketIndex = mkt
             THEN Sign(svc[c].direction) * Filled(c) ELSE 0)
            + OwnFillOf(cs \ {c}, b, mkt)

\* the signed raw size that the orders placed for box b have opened on market mkt
OwnFill(b, mkt) == OwnFillOf(BoxCalls("placeLimitOrder", b), b, mkt)

\* C14: every reduce-only order sent by the trigger or expiry of a box is
\* against, and no larger than, what that box's own order has opened on the
\* order's market: it closes nothing that was opened for another box.
C14_CloseOnlyOwnPosition ==
    \A o \in vCloses :
        LET own == OwnFill(svc[o.k].id, o.market)
        IN own * Sign(o.dir) < 0 /\ o.amt <= Abs(own)

\* the calls made to close for box b
CloseCalls(b) == BoxCalls("handleTrigger", b) \cup BoxCalls("handleExpiry", b)

\* C32: for every order id, once both the placeLimitOrder(id) and the
\* handleTrigger(id) or handleExpiry(id) issued for the same box have
\* completed, in whichever order, no metadata entry for id remains.
C32_NoMetadataOncePlaceAndCloseCompleted ==
    \A b \in BoxIds :
        (/\ \E p \in BoxCalls("placeLimitOrder", b) : Ended(p)
         /\ \E c \in CloseCalls(b) : Ended(c))
        => b \notin DOMAIN orderMeta

\* box b has expired and its handleExpiry call has returned
ExpiryCompleted(b) == \E c \in BoxCalls("handleExpiry", b) : svc[c].pc = "returned"

\* the boxes an order was placed for
PlacedBoxes == {b \in BoxIds : BoxCalls("placeLimitOrder", b) # {}}

\* C33: once a box has expired and its handleExpiry call has completed, the
\* venue holds no resting limit order placed for that box, and no open
\* position once this is so for every box an order was placed for: no fill
\* arriving after the expiry can open a position.
C33_NothingLeftAtVenueAfterExpiry ==
    /\ \A b \in BoxIds :
         ExpiryCompleted(b) => \A o \in vResting : svc[o.k].id # b
    /\ (PlacedBoxes # {} /\ \A b \in PlacedBoxes : ExpiryCompleted(b))
         => \A mkt \in Markets : vPositions[mkt] = 0

-----------------------------------------------------------------------------
(* Properties of the direction of an order, checked under SpecDirection *)

\* C12: a supplied direction is used unchanged; without one the direction is
\* LONG when the oracle read gives a price and the target price is at least
\* that price, SHORT when it is below it, and LONG when the oracle read gives
\* nothing or throws (the resolution still ends with a direction).
C12_DirectionInferredFromOracle ==
    usedDirection # "unset" =>
        /\ usedDirection \in Directions
        /\ reqDirection # <<>> => usedDirection = reqDirection[1]
        /\ (reqDirection = <<>> /\ oracleRead.kind = "data") =>
              (usedDirection = "LONG" <=> reqTargetPrice >= oracleRead.price)
        /\ (reqDirection = <<>> /\ oracleRead.kind # "data") =>
              usedDirection = "LONG"

\* a request without direction was resolved against a throwing oracle read
C12_Witness ==
    /\ usedDirection = "LONG"
    /\ reqDirection = <<>>
    /\ oracleRead = OracleThrows

-----------------------------------------------------------------------------
(* Properties of the order event bus, checked under SpecBus *)

\* the invocations handler h has had of events of type t, oldest first
ReceivedOf(h, t) == SelectSeq(received[h], LAMBDA r : r.type = t)

HasReceived(h, e) == \E n \in 1..Len(received[h]) : received[h][n].event = e

\* C18: no subscribed handler is invoked for an event before the
\* emitOrderEvent call that published the event has returned to its caller:
\* while that call is on the stack no handler has had its event, and every
\* invocation there has been came after the return.
C18_HandlerRunsAfterEmitReturned ==
    /\ \A h \in Handlers : inEmit # 0 => ~HasReceived(h, inEmit)
    /\ \A h \in Handlers : \A n \in 1..Len(received[h]) : ~received[h][n].early

\* a handler has been invoked for an event published while it was subscribed
C18_Witness ==
    \E h \in Handlers : \E n \in 1..Len(received[h]) :
        /\ received[h][n].event \in returned
        /\ <<received[h][n].event, h>> \in owed

\* C19: a handler that throws does not keep the other handlers subscribed to
\* the same event kind from receiving that event or later events, and its
\* error does not reach the publisher: the handler ran after the publisher's
\* call had returned, and once the queue has drained every listener that a
\* dispatch reached has been invoked for the event.
C19_ThrowingHandlerIsIsolated ==
    /\ \A h \in Handlers : \A n \in 1..Len(received[h]) :
           received[h][n].threw => ~received[h][n].early
    /\ microtasks = <<>> =>
           \A d \in owed : HasReceived(d[2], d[1])

\* a handler threw on an event; another handler of the same kind has had
\* that event and a later one
C19_Witness ==
    \E h, g \in Handlers : \E n \in 1..Len(received[h]) :
        /\ h # g
        /\ received[h][n].threw
        /\ microtasks = <<>>
        /\ \E i, j \in 1..Len(received[g]) :
              /\ received[g][i].event = received[h][n].event
              /\ received[g][j].event > received[h][n].event
              /\ received[g][j].type = received[h][n].type
              /\ \E k \in 1..Len(received[h]) :
                    received[h][k].event = received[g][j].event

\* C20: for one handler and one event kind, events are delivered in the
\* order they were published.
C20_DeliveredInPublishOrder ==
    \A h \in Handlers, t \in OrderEventTypes :
        \A i, j \in 1..Len(ReceivedOf(h, t)) :
            i < j => ReceivedOf(h, t)[i].event < ReceivedOf(h, t)[j].event

\* a handler has had two events of one kind, and another kind in between
C20_Witness ==
    \E h \in Handlers, t \in OrderEventTypes :
        /\ Len(ReceivedOf(h, t)) >= 2
        /\ \E e \in 1..Len(published) :
              /\ published[e] # t
              /\ ReceivedOf(h, t)[1].event < e
              /\ e < ReceivedOf(h, t)[2].event

====
